---- MODULE Spec2Model ----
(***************************************************************************)
(* Peach8, a CHIP-8 virtual machine (peach8/src/peach.rs, opcode.rs,       *)
(* gfx.rs, timer.rs).  The machine is the record chip (the fields of       *)
(* struct Peach8); the public operations are load, tick_chip and           *)
(* tick_timers.  Every handler is an operator from a machine record to a   *)
(* pair [c |-> machine after the handler, r |-> the Result it returns].    *)
(***************************************************************************)
EXTENDS Integers, Sequences, FiniteSets, TLC

VARIABLES chip,    \* the Peach8 value: v, i, pc, gfx, keys, stack, memory, timers, ctx
          result,  \* what the last tick_chip returned: Ok or the error string
          last,    \* the public operation that ran last: "load", "tick_chip", "tick_timers"
          keypad,  \* the keys the host's keypad can report as down (fixed per run)
          entry,   \* what the last tick_chip met on entry: its pc, the decoder's answer
                   \* for the word there, whether a raw key went from true to false,
                   \* and the framebuffer
          parity,  \* the number of tick_chip calls so far, modulo 2
          sched,   \* the value FX18 stored last and the tick_timers calls since
          touched, \* the fields of Peach8 the last tick_chip and tick_timers accessed
          cells,   \* a racy and an atomic timer cell given the same operations
          race,    \* an atomic cell with a store and a decrement in flight
          decode,  \* a 16-bit word, the decoder's answer for it and what executing
                   \* the answer on a new machine returned
          image,   \* the program bytes that were given to load
          bits     \* a stand-alone Gfx, the xor_bit call made on it last, what the
                   \* call returned, what get_bit answered for the same pixel after
                   \* it, and the Gfx before the call

vars == <<chip, result, last, keypad, entry, parity, sched, touched, cells, race, decode,
          image, bits>>

----------------------------------------------------------------------------
(* Program constants *)

MEM_LENGTH == 4096
START_ADDR == 512
FONTSET_ADDR == 80
WIDTH == 64
HEIGHT == 32
STACK_CAPACITY == 64
KEY_COUNT == 16

Ok == "Ok"
ErrPcIncrement == "Attempted to increment pc out of address space"
ErrReadMemory == "Attempted to read memory out of address space"
ErrUnknownOp == "Unknown operation code"
ErrMlSubroutine == "Machine code subroutines not supported"
ErrReturn == "Can't return. Not in subroutine"
ErrJump == "Attempted to jump out of program's address space"
ErrStackFull == "Cannot enter subroutine, stack is full"
ErrSetPc == "Attempted to set pc out of address space"
ErrSetI == "Attempted to set i out of address space"
ErrSetMemory == "Attempted to set memory out of address space"
ErrStore == "Attempted to store data out of address space"
ErrLoad == "Attempted to load memory out of address space"
ErrPixel == "Pixel index out of bounds"

fontset ==
  << 240, 144, 144, 144, 240,    32,  96,  32,  32, 112,
     240,  16, 240, 128, 240,   240,  16, 240,  16, 240,
     144, 144, 240,  16,  16,   240, 128, 240,  16, 240,
     240, 128, 240, 144, 240,   240,  16,  32,  64,  64,
     240, 144, 240, 144, 240,   240, 144, 240,  16, 240,
     240, 144, 240, 144, 144,   224, 144, 224, 144, 224,
     240, 128, 128, 128, 240,   224, 144, 144, 144, 224,
     240, 128, 240, 128, 240,   240, 128, 240, 128, 128 >>

----------------------------------------------------------------------------
(* 8-bit helpers: u8 arithmetic and the bit operators of the handlers *)

RECURSIVE BitAnd(_, _)
BitAnd(a, b) ==
  IF a = 0 \/ b = 0 THEN 0
  ELSE (a % 2) * (b % 2) + 2 * BitAnd(a \div 2, b \div 2)

RECURSIVE BitOr(_, _)
BitOr(a, b) ==
  IF a = 0 THEN b ELSE IF b = 0 THEN a
  ELSE (IF a % 2 = 1 \/ b % 2 = 1 THEN 1 ELSE 0) + 2 * BitOr(a \div 2, b \div 2)

RECURSIVE BitXor(_, _)
BitXor(a, b) ==
  IF a = 0 THEN b ELSE IF b = 0 THEN a
  ELSE ((a + b) % 2) + 2 * BitXor(a \div 2, b \div 2)

\* bit k of a byte counted from the most significant bit (bitvec's Msb0 order)
Msb0Bit(byte, k) == (byte \div (2 ^ (7 - k))) % 2

R(c, r) == [c |-> c, r |-> r]

----------------------------------------------------------------------------
(* KeyState *)

KeyStates == {"Pressed", "Down", "Released", "Up"}

\* Faulty variant of KeyStateUpdate: a key held for a second update stays
\* Pressed instead of becoming Down.
KeyStateUpdate_PressedPersists(state, pressed) ==
  CASE state = "Pressed" /\ pressed                       -> "Pressed"
    [] state = "Down" /\ pressed                          -> "Down"
    [] (state = "Pressed"  \/ state = "Down") /\ ~pressed -> "Released"
    [] (state = "Released" \/ state = "Up")   /\ pressed  -> "Pressed"
    [] (state = "Released" \/ state = "Up")   /\ ~pressed -> "Up"

KeyStateUpdate(state, pressed) ==
  CASE (state = "Pressed"  \/ state = "Down") /\ pressed  -> "Down"
    [] (state = "Pressed"  \/ state = "Down") /\ ~pressed -> "Released"
    [] (state = "Released" \/ state = "Up")   /\ pressed  -> "Pressed"
    [] (state = "Released" \/ state = "Up")   /\ ~pressed -> "Up"

----------------------------------------------------------------------------
(* Timer cell (the default, atomic back-end; racy has the same sequential    *)
(* behaviour)                                                              *)

TimerNew == 0
TimerStore(t, value) == value
TimerLoad(t) == t
\* Faulty variant of TimerDecrement: the value wraps below zero.
TimerDecrement_Wraps(t) ==
  [t |-> (t - 1) % 256,
   state |-> IF t = 0 THEN "Off" ELSE IF t = 1 THEN "Finished" ELSE "On"]

\* fetch_update returns the previous value, which decides the state
TimerDecrement(t) ==
  [t |-> IF t > 0 THEN t - 1 ELSE t,
   state |-> IF t = 0 THEN "Off" ELSE IF t = 1 THEN "Finished" ELSE "On"]

\* atomic::Timer::decrement step by step.  fetch_update loads the cell, applies
\* the closure to what it loaded and writes the outcome back with a
\* compare-exchange, which fails and hands back the cell's value when the cell
\* no longer holds what was loaded; it then tries again with that value.
DecrementUpdate(value) == IF value > 0 THEN value - 1 ELSE value

DecrementState(value) ==
  IF value = 0 THEN "Off" ELSE IF value = 1 THEN "Finished" ELSE "On"

\* Faulty variant of FetchUpdateCas: the outcome is written back whatever the
\* cell holds.
FetchUpdateCas_Blind(cell, prev) ==
  [ok |-> TRUE, cell |-> DecrementUpdate(prev), prev |-> prev]

FetchUpdateCas(cell, prev) ==
  IF cell = prev
  THEN [ok |-> TRUE, cell |-> DecrementUpdate(prev), prev |-> prev]
  ELSE [ok |-> FALSE, cell |-> cell, prev |-> cell]

\* racy::Timer: a plain u8
RacyTimerNew == 0
RacyTimerStore(t, value) == value
RacyTimerLoad(t) == t
\* the value is decremented first and the state decided on the new value
RacyTimerDecrement(t) ==
  IF t > 0
  THEN [t |-> t - 1, state |-> IF t - 1 = 0 THEN "Finished" ELSE "On"]
  ELSE [t |-> t, state |-> "Off"]

----------------------------------------------------------------------------
(* Gfx: WIDTH * HEIGHT / 8 bytes, rows of WIDTH / 8 bytes, Msb0 in a byte   *)

GfxNew == [b \in 0 .. ((WIDTH * HEIGHT) \div 8) - 1 |-> 0]

GfxInRange(x, y) == y < HEIGHT /\ x < WIDTH

\* get_bit: Some(bit) inside the frame, None outside
GfxGetBit(g, x, y) ==
  IF GfxInRange(x, y)
  THEN [some |-> TRUE, bit |-> Msb0Bit(g[y * (WIDTH \div 8) + (x \div 8)], x % 8) = 1]
  ELSE [some |-> FALSE, bit |-> FALSE]

\* Faulty variant of GfxXorBit: coordinates outside the frame wrap around.
GfxXorBit_Wraps(g, x, y, val) ==
  LET idx == (y % HEIGHT) * (WIDTH \div 8) + ((x % WIDTH) \div 8)
      mask == IF val THEN 2 ^ (7 - (x % 8)) ELSE 0
  IN  [g |-> [g EXCEPT ![idx] = BitXor(g[idx], mask)], r |-> Ok]

\* Faulty variant of GfxXorBit: the bit is set, not toggled.
GfxXorBit_Or(g, x, y, val) ==
  IF GfxInRange(x, y)
  THEN LET idx == y * (WIDTH \div 8) + (x \div 8)
           mask == IF val THEN 2 ^ (7 - (x % 8)) ELSE 0
       IN  [g |-> [g EXCEPT ![idx] = BitOr(g[idx], mask)], r |-> Ok]
  ELSE [g |-> g, r |-> ErrPixel]

\* xor_bit: *bit ^= val, or the error outside the frame
GfxXorBit(g, x, y, val) ==
  IF GfxInRange(x, y)
  THEN LET idx == y * (WIDTH \div 8) + (x \div 8)
           mask == IF val THEN 2 ^ (7 - (x % 8)) ELSE 0
       IN  [g |-> [g EXCEPT ![idx] = BitXor(g[idx], mask)], r |-> Ok]
  ELSE [g |-> g, r |-> ErrPixel]

----------------------------------------------------------------------------
(* The host context: the raw keys it reports, the sound output, the last    *)
(* frame it was given, and the log of the calls made to it by the running   *)
(* operation, in order.                                                    *)

NoKeys == [k \in 0 .. KEY_COUNT - 1 |-> FALSE]

CtxNew == [keys |-> NoKeys, sound |-> FALSE,
           frame |-> [some |-> FALSE, raw |-> GfxNew], log |-> <<>>]

CtxCall(c, name) == [c EXCEPT !.ctx.log = Append(c.ctx.log, name)]

----------------------------------------------------------------------------
(* OpCode: the decoder (TryFrom<u16>)                                       *)

read_first(raw) == (raw \div 4096) % 16
read_last(raw) == raw % 16
read_x(raw) == (raw \div 256) % 16
\* Faulty variant of read_y: the top bit of the nibble is lost.
read_y_Low3(raw) == (raw \div 16) % 8
read_y(raw) == (raw \div 16) % 16
read_nn(raw) == raw % 256
read_nnn(raw) == raw % 4096

\* An instruction value: the variant t and its fields (0 for a field the
\* variant does not have).
Op(t, x, y, n, nn, nnn) == [t |-> t, x |-> x, y |-> y, n |-> n, nn |-> nn, nnn |-> nnn]
OpNNN(t, raw) == [ok |-> TRUE, op |-> Op(t, 0, 0, 0, 0, read_nnn(raw)), err |-> Ok]
OpXNN(t, raw) == [ok |-> TRUE, op |-> Op(t, read_x(raw), 0, 0, read_nn(raw), 0), err |-> Ok]
OpXY(t, raw) == [ok |-> TRUE, op |-> Op(t, read_x(raw), read_y(raw), 0, 0, 0), err |-> Ok]
OpX(t, raw) == [ok |-> TRUE, op |-> Op(t, read_x(raw), 0, 0, 0, 0), err |-> Ok]
OpNone(t) == [ok |-> TRUE, op |-> Op(t, 0, 0, 0, 0, 0), err |-> Ok]
OpErr == [ok |-> FALSE, op |-> Op("none", 0, 0, 0, 0, 0), err |-> ErrUnknownOp]

\* Faulty variant of try_from: the last nibble of 5XY_ is not looked at.
try_from_Lenient5(raw) ==
  LET first == read_first(raw)
      lastn == read_last(raw)
      nn == read_nn(raw)
  IN
  CASE first = 0 -> (IF read_nnn(raw) = 224 THEN OpNone("_00E0")
                     ELSE IF read_nnn(raw) = 238 THEN OpNone("_00EE")
                     ELSE OpNNN("_0NNN", raw))
    [] first = 1 -> OpNNN("_1NNN", raw)
    [] first = 2 -> OpNNN("_2NNN", raw)
    [] first = 3 -> OpXNN("_3XNN", raw)
    [] first = 4 -> OpXNN("_4XNN", raw)
    [] first = 5 -> OpXY("_5XY0", raw)
    [] first = 6 -> OpXNN("_6XNN", raw)
    [] first = 7 -> OpXNN("_7XNN", raw)
    [] first = 8 -> (CASE lastn = 0 -> OpXY("_8XY0", raw)
                       [] lastn = 1 -> OpXY("_8XY1", raw)
                       [] lastn = 2 -> OpXY("_8XY2", raw)
                       [] lastn = 3 -> OpXY("_8XY3", raw)
                       [] lastn = 4 -> OpXY("_8XY4", raw)
                       [] lastn = 5 -> OpXY("_8XY5", raw)
                       [] lastn = 6 -> OpXY("_8XY6", raw)
                       [] lastn = 7 -> OpXY("_8XY7", raw)
                       [] lastn = 14 -> OpXY("_8XYE", raw)
                       [] OTHER -> OpErr)
    [] first = 9 -> (IF lastn = 0 THEN OpXY("_9XY0", raw) ELSE OpErr)
    [] first = 10 -> OpNNN("_ANNN", raw)
    [] first = 11 -> OpNNN("_BNNN", raw)
    [] first = 12 -> OpXNN("_CXNN", raw)
    [] first = 13 -> [ok |-> TRUE, err |-> Ok,
                      op |-> Op("_DXYN", read_x(raw), read_y(raw), read_last(raw), 0, 0)]
    [] first = 14 -> (CASE nn = 158 -> OpX("_EX9E", raw)
                        [] nn = 161 -> OpX("_EXA1", raw)
                        [] OTHER -> OpErr)
    [] first = 15 -> (CASE nn = 7 -> OpX("_FX07", raw)
                        [] nn = 10 -> OpX("_FX0A", raw)
                        [] nn = 21 -> OpX("_FX15", raw)
                        [] nn = 24 -> OpX("_FX18", raw)
                        [] nn = 30 -> OpX("_FX1E", raw)
                        [] nn = 41 -> OpX("_FX29", raw)
                        [] nn = 51 -> OpX("_FX33", raw)
                        [] nn = 85 -> OpX("_FX55", raw)
                        [] nn = 101 -> OpX("_FX65", raw)
                        [] OTHER -> OpErr)

try_from(raw) ==
  LET first == read_first(raw)
      lastn == read_last(raw)
      nn == read_nn(raw)
  IN
  CASE first = 0 -> (IF read_nnn(raw) = 224 THEN OpNone("_00E0")
                     ELSE IF read_nnn(raw) = 238 THEN OpNone("_00EE")
                     ELSE OpNNN("_0NNN", raw))
    [] first = 1 -> OpNNN("_1NNN", raw)
    [] first = 2 -> OpNNN("_2NNN", raw)
    [] first = 3 -> OpXNN("_3XNN", raw)
    [] first = 4 -> OpXNN("_4XNN", raw)
    [] first = 5 -> (IF lastn = 0 THEN OpXY("_5XY0", raw) ELSE OpErr)
    [] first = 6 -> OpXNN("_6XNN", raw)
    [] first = 7 -> OpXNN("_7XNN", raw)
    [] first = 8 -> (CASE lastn = 0 -> OpXY("_8XY0", raw)
                       [] lastn = 1 -> OpXY("_8XY1", raw)
                       [] lastn = 2 -> OpXY("_8XY2", raw)
                       [] lastn = 3 -> OpXY("_8XY3", raw)
                       [] lastn = 4 -> OpXY("_8XY4", raw)
                       [] lastn = 5 -> OpXY("_8XY5", raw)
                       [] lastn = 6 -> OpXY("_8XY6", raw)
                       [] lastn = 7 -> OpXY("_8XY7", raw)
                       [] lastn = 14 -> OpXY("_8XYE", raw)
                       [] OTHER -> OpErr)
    [] first = 9 -> (IF lastn = 0 THEN OpXY("_9XY0", raw) ELSE OpErr)
    [] first = 10 -> OpNNN("_ANNN", raw)
    [] first = 11 -> OpNNN("_BNNN", raw)
    [] first = 12 -> OpXNN("_CXNN", raw)
    [] first = 13 -> [ok |-> TRUE, err |-> Ok,
                      op |-> Op("_DXYN", read_x(raw), read_y(raw), read_last(raw), 0, 0)]
    [] first = 14 -> (CASE nn = 158 -> OpX("_EX9E", raw)
                        [] nn = 161 -> OpX("_EXA1", raw)
                        [] OTHER -> OpErr)
    [] first = 15 -> (CASE nn = 7 -> OpX("_FX07", raw)
                        [] nn = 10 -> OpX("_FX0A", raw)
                        [] nn = 21 -> OpX("_FX15", raw)
                        [] nn = 24 -> OpX("_FX18", raw)
                        [] nn = 30 -> OpX("_FX1E", raw)
                        [] nn = 41 -> OpX("_FX29", raw)
                        [] nn = 51 -> OpX("_FX33", raw)
                        [] nn = 85 -> OpX("_FX55", raw)
                        [] nn = 101 -> OpX("_FX65", raw)
                        [] OTHER -> OpErr)

----------------------------------------------------------------------------
(* Peach8: construction                                                    *)

Peach8New(ctx) ==
  [ctx |-> ctx,
   v |-> [r \in 0 .. 15 |-> 0],
   i |-> 0,
   pc |-> START_ADDR,
   gfx |-> GfxNew,
   keys |-> [k \in 0 .. KEY_COUNT - 1 |-> "Up"],
   stack |-> <<>>,
   memory |-> [a \in 0 .. MEM_LENGTH - 1 |-> 0],
   delay_timer |-> TimerNew,
   sound_timer |-> TimerNew]

\* Faulty variant of load: program bytes that do not fit above START_ADDR
\* are written from address 0 on.
load_Wraps(ctx, prog) ==
  LET chip0 == Peach8New(ctx)
      room == MEM_LENGTH - START_ADDR
      withFont == [a \in 0 .. MEM_LENGTH - 1 |->
                     IF a >= FONTSET_ADDR /\ a - FONTSET_ADDR < Len(fontset)
                     THEN fontset[a - FONTSET_ADDR + 1] ELSE chip0.memory[a]]
      withProg == [a \in 0 .. MEM_LENGTH - 1 |->
                     IF a >= START_ADDR /\ a - START_ADDR < Len(prog)
                     THEN prog[a - START_ADDR + 1]
                     ELSE IF a + room < Len(prog) THEN prog[a + room + 1]
                     ELSE withFont[a]]
  IN  [chip0 EXCEPT !.memory = withProg]

\* load: the fontset is zipped into memory[FONTSET_ADDR..], then the program
\* into memory[START_ADDR..]; zip stops at the shorter of the two.
load(ctx, prog) ==
  LET chip0 == Peach8New(ctx)
      withFont == [a \in 0 .. MEM_LENGTH - 1 |->
                     IF a >= FONTSET_ADDR /\ a - FONTSET_ADDR < Len(fontset)
                     THEN fontset[a - FONTSET_ADDR + 1] ELSE chip0.memory[a]]
      withProg == [a \in 0 .. MEM_LENGTH - 1 |->
                     IF a >= START_ADDR /\ a - START_ADDR < Len(prog)
                     THEN prog[a - START_ADDR + 1] ELSE withFont[a]]
  IN  [chip0 EXCEPT !.memory = withProg]

----------------------------------------------------------------------------
(* Peach8: the private steps of a tick                                     *)

pc_increment(c) ==
  IF c.pc <= MEM_LENGTH - 2
  THEN R([c EXCEPT !.pc = c.pc + 2], Ok)
  ELSE R(c, ErrPcIncrement)

\* ctx.get_keys() zipped with the key states: key k is updated with raw k
\* Faulty variant of update_keys: key k is advanced by raw input 15 - k.
update_keys_Reversed(c) ==
  LET c1 == CtxCall(c, "get_keys")
      raw == c1.ctx.keys
  IN  [c1 EXCEPT !.keys = [k \in 0 .. KEY_COUNT - 1 |->
                             KeyStateUpdate(c1.keys[k], raw[KEY_COUNT - 1 - k])]]

update_keys(c) ==
  LET c1 == CtxCall(c, "get_keys")
      raw == c1.ctx.keys
  IN  [c1 EXCEPT !.keys = [k \in 0 .. KEY_COUNT - 1 |-> KeyStateUpdate(c1.keys[k], raw[k])]]

\* the decoder's answer for the word at pc, or the read error
\* Faulty variant of read_opcode: the word is read little-endian.
read_opcode_LittleEndian(c) ==
  IF c.pc <= MEM_LENGTH - 2
  THEN try_from(c.memory[c.pc] + c.memory[c.pc + 1] * 256)
  ELSE [ok |-> FALSE, op |-> Op("none", 0, 0, 0, 0, 0), err |-> ErrReadMemory]

read_opcode(c) ==
  IF c.pc <= MEM_LENGTH - 2
  THEN try_from(c.memory[c.pc] * 256 + c.memory[c.pc + 1])
  ELSE [ok |-> FALSE, op |-> Op("none", 0, 0, 0, 0, 0), err |-> ErrReadMemory]

----------------------------------------------------------------------------
(* Instruction handlers                                                    *)

SetV(c, x, value) == [c EXCEPT !.v[x] = value]

exec_ml_subroutine_at(c, nnn) == R(c, ErrMlSubroutine)

clear_screen(c) == R([c EXCEPT !.gfx = GfxNew], Ok)

\* Faulty variant of subroutine_return: the oldest entry is taken.
subroutine_return_Fifo(c) ==
  IF Len(c.stack) = 0 THEN R(c, ErrReturn)
  ELSE R([c EXCEPT !.pc = c.stack[1],
                   !.stack = SubSeq(c.stack, 2, Len(c.stack))], Ok)

subroutine_return(c) ==
  IF Len(c.stack) = 0 THEN R(c, ErrReturn)
  ELSE R([c EXCEPT !.pc = c.stack[Len(c.stack)],
                   !.stack = SubSeq(c.stack, 1, Len(c.stack) - 1)], Ok)

\* Faulty variant of jump_to: any address is accepted.
jump_to_Unchecked(c, nnn) == R([c EXCEPT !.pc = nnn], Ok)

jump_to(c, nnn) ==
  IF nnn < START_ADDR THEN R(c, ErrJump)
  ELSE R([c EXCEPT !.pc = nnn], Ok)

\* Faulty variant of exec_subroutine_at: one entry more fits.
exec_subroutine_at_OneMore(c, nnn) ==
  IF nnn < START_ADDR THEN R(c, ErrJump)
  ELSE IF Len(c.stack) > STACK_CAPACITY THEN R(c, ErrStackFull)
  ELSE R([c EXCEPT !.stack = Append(c.stack, c.pc), !.pc = nnn], Ok)

exec_subroutine_at(c, nnn) ==
  IF nnn < START_ADDR THEN R(c, ErrJump)
  ELSE IF Len(c.stack) >= STACK_CAPACITY THEN R(c, ErrStackFull)
  ELSE R([c EXCEPT !.stack = Append(c.stack, c.pc), !.pc = nnn], Ok)

\* Faulty variant of skip_if_vx_eq_nn: the skip is never taken.
skip_if_vx_eq_nn_Never(c, x, nn) == R(c, Ok)

skip_if_vx_eq_nn(c, x, nn) ==
  IF c.v[x] = nn THEN pc_increment(c) ELSE R(c, Ok)

\* Faulty variant of skip_if_vx_ne_nn: the condition is inverted.
skip_if_vx_ne_nn_Inverted(c, x, nn) ==
  IF c.v[x] = nn THEN pc_increment(c) ELSE R(c, Ok)

skip_if_vx_ne_nn(c, x, nn) ==
  IF c.v[x] # nn THEN pc_increment(c) ELSE R(c, Ok)

skip_if_vx_eq_vy(c, x, y) ==
  IF c.v[x] = c.v[y] THEN pc_increment(c) ELSE R(c, Ok)

assign_vx_nn(c, x, nn) == R(SetV(c, x, nn), Ok)

assign_add_vx_nn(c, x, nn) == R(SetV(c, x, (c.v[x] + nn) % 256), Ok)

assign_vx_vy(c, x, y) == R(SetV(c, x, c.v[y]), Ok)

assign_or_vx_vy(c, x, y) == R(SetV(c, x, BitOr(c.v[x], c.v[y])), Ok)

assign_and_vx_vy(c, x, y) == R(SetV(c, x, BitAnd(c.v[x], c.v[y])), Ok)

assign_xor_vx_vy(c, x, y) == R(SetV(c, x, BitXor(c.v[x], c.v[y])), Ok)

\* overflowing_add; v[x] is written first, v[15] second
assign_add_vx_vy(c, x, y) ==
  LET sum == c.v[x] + c.v[y]
  IN  R(SetV(SetV(c, x, sum % 256), 15, IF sum > 255 THEN 1 ELSE 0), Ok)

\* Faulty variant of assign_sub_vx_vy: VF is 1 on a borrow.
assign_sub_vx_vy_BorrowFlag(c, x, y) ==
  LET borrow == c.v[x] < c.v[y]
  IN  R(SetV(SetV(c, x, (c.v[x] - c.v[y]) % 256), 15, IF borrow THEN 1 ELSE 0), Ok)

\* overflowing_sub: borrow iff v[x] < v[y]
assign_sub_vx_vy(c, x, y) ==
  LET borrow == c.v[x] < c.v[y]
  IN  R(SetV(SetV(c, x, (c.v[x] - c.v[y]) % 256), 15, IF borrow THEN 0 ELSE 1), Ok)

\* Faulty variant of assign_vx_vy_shifted_r: Vx is shifted in place and Vy is
\* left alone.
assign_vx_vy_shifted_r_InPlace(c, x, y) ==
  LET lsb == c.v[x] % 2
      value == c.v[x] \div 2
  IN  R(SetV(SetV(c, x, value), 15, lsb), Ok)

assign_vx_vy_shifted_r(c, x, y) ==
  LET lsb == c.v[y] % 2
      value == c.v[y] \div 2
  IN  R(SetV(SetV(SetV(c, x, value), y, value), 15, lsb), Ok)

assign_vx_vy_sub_vx(c, x, y) ==
  LET borrow == c.v[y] < c.v[x]
  IN  R(SetV(SetV(c, x, (c.v[y] - c.v[x]) % 256), 15, IF borrow THEN 0 ELSE 1), Ok)

assign_vx_vy_shifted_l(c, x, y) ==
  LET msb == c.v[y] \div 128
      value == (c.v[y] * 2) % 256
  IN  R(SetV(SetV(SetV(c, x, value), y, value), 15, msb), Ok)

skip_if_vx_ne_vy(c, x, y) ==
  IF c.v[x] # c.v[y] THEN pc_increment(c) ELSE R(c, Ok)

assign_i_nnn(c, nnn) == R([c EXCEPT !.i = nnn], Ok)

\* Faulty variant of jump_to_nnn_add_v0: the sum wraps at 12 bits.
jump_to_nnn_add_v0_Wraps(c, nnn) ==
  LET addr == (nnn + c.v[0]) % MEM_LENGTH
  IN  IF addr < START_ADDR THEN R(c, ErrJump)
      ELSE IF addr < MEM_LENGTH THEN R([c EXCEPT !.pc = addr], Ok)
      ELSE R(c, ErrSetPc)

jump_to_nnn_add_v0(c, nnn) ==
  LET addr == nnn + c.v[0]
  IN  IF addr < START_ADDR THEN R(c, ErrJump)
      ELSE IF addr < MEM_LENGTH THEN R([c EXCEPT !.pc = addr], Ok)
      ELSE R(c, ErrSetPc)

\* rnd is the byte ctx.gen_random() returns in this call
assign_vx_ranom_and_nn(c, x, nn, rnd) ==
  R(SetV(CtxCall(c, "gen_random"), x, BitAnd(rnd, nn)), Ok)

\* The inner loop of draw_n_at_vx_vy: for y_idx in y..y_stop, in column x_idx,
\* from the machine c at row y_idx with the collision flag so far.
RECURSIVE DrawColumn(_, _, _, _, _, _, _)
DrawColumn(c, collision, x, y, y_stop, x_idx, y_idx) ==
  IF y_idx >= y_stop THEN [c |-> c, collision |-> collision]
  ELSE LET to_draw == Msb0Bit(c.memory[c.i + y_idx - y], x_idx - x) = 1
           curr_bit == GfxGetBit(c.gfx, x_idx, y_idx).bit
           hit == to_draw /\ to_draw = curr_bit
           drawn == [c EXCEPT !.gfx = GfxXorBit(c.gfx, x_idx, y_idx, to_draw).g]
       IN  IF hit
           THEN DrawColumn(drawn, TRUE, x, y, y_stop, x_idx, y_idx + 1)
           ELSE DrawColumn(drawn, collision, x, y, y_stop, x_idx, y_idx + 1)

\* The outer loop: for x_idx in x..x_stop, each column from row y_idx = y
RECURSIVE DrawLoop(_, _, _, _, _, _, _, _)
DrawLoop(c, collision, x, y, x_stop, y_stop, x_idx, y_idx) ==
  IF x_idx >= x_stop THEN [c |-> c, collision |-> collision]
  ELSE LET col == DrawColumn(c, collision, x, y, y_stop, x_idx, y_idx)
       IN  DrawLoop(col.c, col.collision, x, y, x_stop, y_stop, x_idx + 1, y)

Min(a, b) == IF a < b THEN a ELSE b

\* Faulty variant of draw_n_at_vx_vy: the start position is not reduced modulo
\* the frame size.
draw_n_at_vx_vy_NoWrap(c, x, y, n) ==
  IF c.i + n >= MEM_LENGTH THEN R(c, ErrReadMemory)
  ELSE LET px == c.v[x]
           py == c.v[y]
           x_stop == Min(px + 8, WIDTH)
           y_stop == Min(py + n, HEIGHT)
           d == DrawLoop(c, FALSE, px, py, x_stop, y_stop, px, py)
       IN  R(SetV(d.c, 15, IF d.collision THEN 1 ELSE 0), Ok)

\* Faulty variant of draw_n_at_vx_vy: VF is set on a collision and never cleared.
draw_n_at_vx_vy_StickyFlag(c, x, y, n) ==
  IF c.i + n >= MEM_LENGTH THEN R(c, ErrReadMemory)
  ELSE LET px == c.v[x] % WIDTH
           py == c.v[y] % HEIGHT
           x_stop == Min(px + 8, WIDTH)
           y_stop == Min(py + n, HEIGHT)
           d == DrawLoop(c, FALSE, px, py, x_stop, y_stop, px, py)
       IN  R(SetV(d.c, 15, IF d.collision THEN 1 ELSE d.c.v[15]), Ok)

draw_n_at_vx_vy(c, x, y, n) ==
  IF c.i + n >= MEM_LENGTH THEN R(c, ErrReadMemory)
  ELSE LET px == c.v[x] % WIDTH
           py == c.v[y] % HEIGHT
           x_stop == Min(px + 8, WIDTH)
           y_stop == Min(py + n, HEIGHT)
           d == DrawLoop(c, FALSE, px, py, x_stop, y_stop, px, py)
       IN  R(SetV(d.c, 15, IF d.collision THEN 1 ELSE 0), Ok)

KeyIsDown(c, key) == key < 16 /\ c.keys[key] \in {"Pressed", "Down"}

\* Faulty variant of skip_if_vx_in_keys: the key index is Vx modulo 16.
skip_if_vx_in_keys_Mod16(c, x) ==
  IF c.keys[c.v[x] % 16] \in {"Pressed", "Down"} THEN pc_increment(c) ELSE R(c, Ok)

skip_if_vx_in_keys(c, x) ==
  IF KeyIsDown(c, c.v[x]) THEN pc_increment(c) ELSE R(c, Ok)

skip_if_vx_not_in_keys(c, x) ==
  IF KeyIsDown(c, c.v[x]) THEN R(c, Ok) ELSE pc_increment(c)

assign_vx_delay_t(c, x) == R(SetV(c, x, TimerLoad(c.delay_timer)), Ok)

\* find_map over the keys in index order: the first Released key, if any
\* Faulty variant of assign_vx_wait_for_key: the highest Released key is taken.
assign_vx_wait_for_key_Highest(c, x) ==
  LET released == {n \in 0 .. KEY_COUNT - 1 : c.keys[n] = "Released"}
  IN  IF released # {}
      THEN pc_increment(SetV(c, x, CHOOSE n \in released : \A m \in released : n >= m))
      ELSE R(c, Ok)

\* Faulty variant of assign_vx_wait_for_key: the wait ends on a Pressed key.
assign_vx_wait_for_key_OnPress(c, x) ==
  LET pressed == {n \in 0 .. KEY_COUNT - 1 : c.keys[n] = "Pressed"}
  IN  IF pressed # {}
      THEN pc_increment(SetV(c, x, CHOOSE n \in pressed : \A m \in pressed : n <= m))
      ELSE R(c, Ok)

\* Faulty variant of assign_vx_wait_for_key: Vx is written but PC stays.
assign_vx_wait_for_key_Stuck(c, x) ==
  LET released == {n \in 0 .. KEY_COUNT - 1 : c.keys[n] = "Released"}
  IN  IF released # {}
      THEN R(SetV(c, x, CHOOSE n \in released : \A m \in released : n <= m), Ok)
      ELSE R(c, Ok)

assign_vx_wait_for_key(c, x) ==
  LET released == {n \in 0 .. KEY_COUNT - 1 : c.keys[n] = "Released"}
  IN  IF released # {}
      THEN pc_increment(SetV(c, x, CHOOSE n \in released : \A m \in released : n <= m))
      ELSE R(c, Ok)

assign_delay_t_vx(c, x) ==
  R([c EXCEPT !.delay_timer = TimerStore(c.delay_timer, c.v[x])], Ok)

assign_sound_t_vx(c, x) ==
  R([c EXCEPT !.sound_timer = TimerStore(c.sound_timer, c.v[x])], Ok)

\* Faulty variant of assign_add_i_vx: the sum is stored without the check.
assign_add_i_vx_Unchecked(c, x) == R([c EXCEPT !.i = c.i + c.v[x]], Ok)

\* Faulty variant of assign_add_i_vx: V0 is added whatever x is.
assign_add_i_vx_V0(c, x) ==
  LET addr == c.i + c.v[0]
  IN  IF addr < MEM_LENGTH THEN R([c EXCEPT !.i = addr], Ok) ELSE R(c, ErrSetI)

assign_add_i_vx(c, x) ==
  LET addr == c.i + c.v[x]
  IN  IF addr < MEM_LENGTH THEN R([c EXCEPT !.i = addr], Ok) ELSE R(c, ErrSetI)

assign_i_addr_of_sprite_vx(c, x) ==
  R([c EXCEPT !.i = FONTSET_ADDR + (c.v[x] % 16) * 5], Ok)

\* Faulty variant of assign_mem_at_i_bcd_of_vx: the tens are not reduced
\* modulo 100 before the division.
assign_mem_at_i_bcd_of_vx_Tens(c, x) ==
  IF c.i + 2 < MEM_LENGTH
  THEN LET value == c.v[x]
       IN  R([c EXCEPT !.memory[c.i] = value \div 100,
                       !.memory[c.i + 1] = value \div 10,
                       !.memory[c.i + 2] = value % 10], Ok)
  ELSE R(c, ErrSetMemory)

assign_mem_at_i_bcd_of_vx(c, x) ==
  IF c.i + 2 < MEM_LENGTH
  THEN LET value == c.v[x]
       IN  R([c EXCEPT !.memory[c.i] = value \div 100,
                       !.memory[c.i + 1] = (value % 100) \div 10,
                       !.memory[c.i + 2] = value % 10], Ok)
  ELSE R(c, ErrSetMemory)

\* for idx in 0..=x { memory[i] = v[idx]; i += 1 }
RECURSIVE StoreLoop(_, _, _)
StoreLoop(c, x, idx) ==
  IF idx > x THEN c
  ELSE StoreLoop([c EXCEPT !.memory[c.i] = c.v[idx], !.i = c.i + 1], x, idx + 1)

\* Faulty variant of assign_mem_at_i_v0_to_vx: every register is written to
\* the address I had on entry.
assign_mem_at_i_v0_to_vx_OneAddress(c, x) ==
  IF c.i + x < MEM_LENGTH - 1
  THEN R([c EXCEPT !.memory[c.i] = c.v[x], !.i = c.i + x + 1], Ok)
  ELSE R(c, ErrStore)

assign_mem_at_i_v0_to_vx(c, x) ==
  IF c.i + x < MEM_LENGTH - 1 THEN R(StoreLoop(c, x, 0), Ok) ELSE R(c, ErrStore)

\* for idx in 0..=x { v[idx] = memory[i]; i += 1 }
RECURSIVE LoadLoop(_, _, _)
LoadLoop(c, x, idx) ==
  IF idx > x THEN c
  ELSE LoadLoop([c EXCEPT !.v[idx] = c.memory[c.i], !.i = c.i + 1], x, idx + 1)

\* Faulty variant of assign_v0_to_vx_mem_at_i: the bytes are taken in
\* descending order, Vk from the address I had on entry plus x - k.
assign_v0_to_vx_mem_at_i_Reversed(c, x) ==
  IF c.i + x < MEM_LENGTH - 1
  THEN R([c EXCEPT !.v = [r \in 0 .. 15 |-> IF r <= x THEN c.memory[c.i + x - r] ELSE c.v[r]],
                   !.i = c.i + x + 1], Ok)
  ELSE R(c, ErrLoad)

assign_v0_to_vx_mem_at_i(c, x) ==
  IF c.i + x < MEM_LENGTH - 1 THEN R(LoadLoop(c, x, 0), Ok) ELSE R(c, ErrLoad)

----------------------------------------------------------------------------
(* execute, tick_chip, tick_timers                                         *)

\* Result::and(self, res): res if self is Ok, else self's error.  Its
\* argument is evaluated before the call, whatever self is.
ResultAnd(self, res) == IF self = Ok THEN res ELSE self

\* The handlers execute returns from directly, without the trailing
\* .and(self.pc_increment())
ReturningOps == {"_0NNN", "_1NNN", "_2NNN", "_BNNN", "_FX0A"}

Handler(c, op, rnd) ==
  CASE op.t = "_0NNN" -> exec_ml_subroutine_at(c, op.nnn)
    [] op.t = "_00E0" -> clear_screen(c)
    [] op.t = "_00EE" -> subroutine_return(c)
    [] op.t = "_1NNN" -> jump_to(c, op.nnn)
    [] op.t = "_2NNN" -> exec_subroutine_at(c, op.nnn)
    [] op.t = "_3XNN" -> skip_if_vx_eq_nn(c, op.x, op.nn)
    [] op.t = "_4XNN" -> skip_if_vx_ne_nn(c, op.x, op.nn)
    [] op.t = "_5XY0" -> skip_if_vx_eq_vy(c, op.x, op.y)
    [] op.t = "_6XNN" -> assign_vx_nn(c, op.x, op.nn)
    [] op.t = "_7XNN" -> assign_add_vx_nn(c, op.x, op.nn)
    [] op.t = "_8XY0" -> assign_vx_vy(c, op.x, op.y)
    [] op.t = "_8XY1" -> assign_or_vx_vy(c, op.x, op.y)
    [] op.t = "_8XY2" -> assign_and_vx_vy(c, op.x, op.y)
    [] op.t = "_8XY3" -> assign_xor_vx_vy(c, op.x, op.y)
    [] op.t = "_8XY4" -> assign_add_vx_vy(c, op.x, op.y)
    [] op.t = "_8XY5" -> assign_sub_vx_vy(c, op.x, op.y)
    [] op.t = "_8XY6" -> assign_vx_vy_shifted_r(c, op.x, op.y)
    [] op.t = "_8XY7" -> assign_vx_vy_sub_vx(c, op.x, op.y)
    [] op.t = "_8XYE" -> assign_vx_vy_shifted_l(c, op.x, op.y)
    [] op.t = "_9XY0" -> skip_if_vx_ne_vy(c, op.x, op.y)
    [] op.t = "_ANNN" -> assign_i_nnn(c, op.nnn)
    [] op.t = "_BNNN" -> jump_to_nnn_add_v0(c, op.nnn)
    [] op.t = "_CXNN" -> assign_vx_ranom_and_nn(c, op.x, op.nn, rnd)
    [] op.t = "_DXYN" -> draw_n_at_vx_vy(c, op.x, op.y, op.n)
    [] op.t = "_EX9E" -> skip_if_vx_in_keys(c, op.x)
    [] op.t = "_EXA1" -> skip_if_vx_not_in_keys(c, op.x)
    [] op.t = "_FX07" -> assign_vx_delay_t(c, op.x)
    [] op.t = "_FX0A" -> assign_vx_wait_for_key(c, op.x)
    [] op.t = "_FX15" -> assign_delay_t_vx(c, op.x)
    [] op.t = "_FX18" -> assign_sound_t_vx(c, op.x)
    [] op.t = "_FX1E" -> assign_add_i_vx(c, op.x)
    [] op.t = "_FX29" -> assign_i_addr_of_sprite_vx(c, op.x)
    [] op.t = "_FX33" -> assign_mem_at_i_bcd_of_vx(c, op.x)
    [] op.t = "_FX55" -> assign_mem_at_i_v0_to_vx(c, op.x)
    [] op.t = "_FX65" -> assign_v0_to_vx_mem_at_i(c, op.x)

\* match opcode { ... }.and(self.pc_increment()): the handler runs, then
\* pc_increment runs on the machine the handler left (it is the argument of
\* and, so it runs whether or not the handler failed), then and picks the
\* result.
\* Faulty variant of execute: PC is incremented after every handler.
execute_AlwaysIncrements(c, op, rnd) ==
  LET h == Handler(c, op, rnd)
      inc == pc_increment(h.c)
  IN  R(inc.c, ResultAnd(h.r, inc.r))

execute(c, op, rnd) ==
  LET h == Handler(c, op, rnd)
  IN  IF op.t \in ReturningOps THEN h
      ELSE LET inc == pc_increment(h.c)
           IN  R(inc.c, ResultAnd(h.r, inc.r))

on_frame(c) ==
  CtxCall([c EXCEPT !.ctx.frame = [some |-> TRUE, raw |-> c.gfx]], "on_frame")

\* update_keys; read_opcode().and_then(execute).and({ on_frame; Ok(()) }):
\* the block that calls on_frame is the argument of and, evaluated after
\* and_then returned and before and is applied.
\* Faulty variant of tick_chip: the frame is presented before the instruction
\* is executed.
tick_chip_FrameFirst(c, rnd) ==
  LET c1 == on_frame(update_keys(c))
      rd == read_opcode(c1)
      ex == IF rd.ok THEN execute(c1, rd.op, rnd) ELSE R(c1, rd.err)
  IN  R(ex.c, ResultAnd(ex.r, Ok))

\* Faulty variant of tick_chip: a word the decoder refuses is reported and
\* stepped over.
tick_chip_SkipsUnknown(c, rnd) ==
  LET c1 == update_keys(c)
      rd == read_opcode(c1)
      ex == IF rd.ok THEN execute(c1, rd.op, rnd)
            ELSE IF rd.err = ErrUnknownOp THEN R(pc_increment(c1).c, rd.err)
            ELSE R(c1, rd.err)
      c2 == on_frame(ex.c)
  IN  R(c2, ResultAnd(ex.r, Ok))

tick_chip(c, rnd) ==
  LET c1 == update_keys(c)
      rd == read_opcode(c1)
      ex == IF rd.ok THEN execute(c1, rd.op, rnd) ELSE R(c1, rd.err)
      c2 == on_frame(ex.c)
  IN  R(c2, ResultAnd(ex.r, Ok))

sound_on(c) == CtxCall([c EXCEPT !.ctx.sound = TRUE], "sound_on")
sound_off(c) == CtxCall([c EXCEPT !.ctx.sound = FALSE], "sound_off")

\* Faulty variant of tick_timers: sound_off is never called.
tick_timers_NeverOff(c) ==
  LET d == TimerDecrement(c.delay_timer)
      s == TimerDecrement(c.sound_timer)
      c1 == [c EXCEPT !.delay_timer = d.t, !.sound_timer = s.t]
  IN  CASE s.state = "On" -> sound_on(c1)
        [] s.state = "Off" -> c1
        [] s.state = "Finished" -> c1

\* Faulty variant of tick_timers: sound_off is called when the timer finishes.
tick_timers_OffOnFinished(c) ==
  LET d == TimerDecrement(c.delay_timer)
      s == TimerDecrement(c.sound_timer)
      c1 == [c EXCEPT !.delay_timer = d.t, !.sound_timer = s.t]
  IN  CASE s.state = "On" -> sound_on(c1)
        [] s.state = "Off" -> sound_off(c1)
        [] s.state = "Finished" -> sound_off(c1)

\* Faulty variant of tick_timers: the delay timer is decremented twice.
tick_timers_DelayTwice(c) ==
  LET d == TimerDecrement(TimerDecrement(c.delay_timer).t)
      s == TimerDecrement(c.sound_timer)
      c1 == [c EXCEPT !.delay_timer = d.t, !.sound_timer = s.t]
  IN  CASE s.state = "On" -> sound_on(c1)
        [] s.state = "Off" -> sound_off(c1)
        [] s.state = "Finished" -> c1

tick_timers(c) ==
  LET d == TimerDecrement(c.delay_timer)
      s == TimerDecrement(c.sound_timer)
      c1 == [c EXCEPT !.delay_timer = d.t, !.sound_timer = s.t]
  IN  CASE s.state = "On" -> sound_on(c1)
        [] s.state = "Off" -> sound_off(c1)
        [] s.state = "Finished" -> c1

----------------------------------------------------------------------------
(* Inputs: the program images the machine is loaded with and what the host  *)
(* answers.                                                                *)

\* registers 0 .. LowRegs-1 and VF are the registers of the families
LowRegs == 2
\* bytes 0 .. LowBytes-1, 0x2A and 0xFF are their immediates
LowBytes == 1
\* keys 0 .. LowKeys-1 and key F are the keys the host reports down
LowKeys == 1
\* bytes 0 .. LowRand-1 and 0xFF are what gen_random returns
LowRand == 1
\* 0 .. HighTimer are the values the timer programs store
HighTimer == 3
\* tick_timers calls after a store are counted up to MaxCalls
MaxCalls == 6
\* 0 .. LowCell, 101 and 255 are the values stored into the stand-alone cells
LowCell == 2
\* decrements of the stand-alone cells after a store
MaxDecrements == 102

TestRegs == {r \in 0 .. 15 : r < LowRegs} \cup {15}
TestBytes == {b \in 0 .. 255 : b < LowBytes} \cup {\H2A, \HFF}
PressableKeys == {k \in 0 .. KEY_COUNT - 1 : k < LowKeys} \cup {15}
RandBytes == {b \in 0 .. 255 : b < LowRand} \cup {\HFF}
TimerValues == 0 .. HighTimer
CellValues == {b \in 0 .. 255 : b <= LowCell} \cup {101, 255}

\* the bytes of a sequence of instruction words, big-endian
Bytes(ws) ==
  [j \in 1 .. 2 * Len(ws) |->
     LET w == ws[(j + 1) \div 2] IN IF j % 2 = 1 THEN w \div 256 ELSE w % 256]

\* an image with the words lo at START_ADDR and the words hi at address at
Image(lo, at, hi) ==
  [j \in 1 .. (at - START_ADDR) + 2 * Len(hi) |->
     IF j <= 2 * Len(lo) THEN Bytes(lo)[j]
     ELSE IF j > at - START_ADDR THEN Bytes(hi)[j - (at - START_ADDR)]
     ELSE 0]

\* instruction words
W_XNN(first, x, nn) == first * 4096 + x * 256 + nn
W_XY(first, x, y, lastn) == first * 4096 + x * 256 + y * 16 + lastn

\* 6XNN, 6YNN and every skip instruction over the test registers and bytes
SkipPrograms ==
  {Bytes(<<W_XNN(6, x, a), W_XNN(6, y, b), W_XNN(3, x, b), W_XNN(4, y, a),
           W_XY(5, x, y, 0), W_XY(9, x, y, 0), W_XNN(3, y, b), W_XNN(4, x, b)>>) :
     <<x, y, a, b>> \in TestRegs \X TestRegs \X TestBytes \X TestBytes}

PlainPrograms ==
  { Bytes(<<\H612A, \H7101, \H312B, \H1208, \H1202>>),
    Bytes(<<\H60FF, \H6102, \H8014, \H8105, \H8017, \H8016, \H801E,
            \H8011, \H8012, \H8013, \H8010, \H7005, \H8FF4, \H121A>>),
    Bytes(<<\H2206, \H1202, \H0000, \H220A, \H00EE, \H00EE>>),
    Bytes(<<\H00EE, \H00EE, \H1204>>),
    Bytes(<<\H2200>>),
    Bytes(<<\H1100>>), Bytes(<<\H2100>>), Bytes(<<\HB1FF>>),
    Bytes(<<\H60FF, \HBFFF>>), Bytes(<<\H6002, \HB202, \H0000, \H1206>>),
    Bytes(<<\H6020, \HB2F0>>),
    Bytes(<<\H5001>>), Bytes(<<\H8008>>), Bytes(<<\H9001>>),
    Bytes(<<\HE000>>), Bytes(<<\HF000>>),
    Bytes(<<\H1FFF>>),
    Bytes(<<\H6002, \H6101, \H620F, \HF229, \HD015, \HD015, \H603E, \H611E,
            \HD015, \H00E0, \HAFFE, \HD015, \H1218>>),
    Bytes(<<\HAFFB, \H60FF, \HF01E, \HAFFF, \HF033, \HAFF1, \HFF55, \HFF65,
            \H1210>>),
    Bytes(<<\H60DE, \H61AD, \H62BE, \H63EF, \HA300, \HF355, \H6000, \H6100,
            \HA300, \HF365, \HA310, \HF033, \HF01E, \H121A>>),
    Bytes(<<\H1203, \H0012, \H0512, \H0500>>),
    Bytes(<<\HC0FF, \HC12A, \H1204>>) }

\* timers stored once with each test value, and a sound timer stored again
\* and again
TimerPrograms ==
  {Bytes(<<W_XNN(6, 0, t), \HF015, \HF018, \HF107, \H1206>>) : t \in TimerValues}
  \cup {Bytes(<<\H6002, \HF018, \H1202>>)}

\* an instruction at the last fetchable address, reached by a jump
EndOfMemoryPrograms ==
  {Image(<<\H1FFE>>, 4094, <<w>>) :
     w \in {\H3000, \H4000, \H5010, \H9010, \H6005, \H00E0, \HF00A, \HE0A1, \HE09E}}

\* programs that read the keys, and some that fail or draw while keys move
KeyPrograms ==
  { Bytes(<<\HF00A, \HF10A, \HF20A, \H1206>>),
    Bytes(<<\H600F, \HE09E, \HE0A1, \H1202>>),
    Bytes(<<\H60FF, \HE09E, \HE0A1, \H1202>>),
    Bytes(<<\H6010, \HE09E, \HE0A1, \H1202>>),
    Bytes(<<\HE09E, \HE0A1, \H1200>>),
    Bytes(<<\H620F, \HF229, \HD005, \H00EE, \H0000>>),
    Image(<<\H1FFE>>, 4094, <<\HF00A>>) }

\* A scenario: the program image and the keys the host's keypad can report
\* as down.
Scenarios ==
  {[prog |-> p, keypad |-> {}] :
     p \in SkipPrograms \cup PlainPrograms \cup TimerPrograms \cup EndOfMemoryPrograms}
  \cup {[prog |-> p, keypad |-> PressableKeys] : p \in KeyPrograms}

RawInputs(pad) == {[k \in 0 .. KEY_COUNT - 1 |-> k \in down] : down \in SUBSET pad}

----------------------------------------------------------------------------
(* The state machine                                                       *)

\* what gen_random may answer in the next tick: it is asked by CXNN only
RandInputs(c) ==
  IF read_opcode(c).ok /\ read_opcode(c).op.t = "_CXNN" THEN RandBytes ELSE {0}

NoRead == [ok |-> FALSE, op |-> Op("none", 0, 0, 0, 0, 0), err |-> Ok]

\* no FX18 executed yet
NoSched == [v |-> -1, k |-> 0]

\* the fields of Peach8
Fields ==
  {"ctx", "v", "i", "pc", "gfx", "keys", "stack", "memory", "delay_timer", "sound_timer"}

\* the fields an operation that took c to d wrote; ctx is written by every call
\* of one of its methods (they take &mut self)
Written(c, d) ==
  {f \in Fields \ {"ctx"} : c[f] # d[f]}
    \cup (IF d.ctx.log # <<>> THEN {"ctx"} ELSE {})

NoTouched == [tick_chip |-> {}, tick_timers |-> {}]

\* the stand-alone cells before any operation
CellsNew ==
  [op |-> "new", before |-> 0, racy |-> RacyTimerNew, atomic |-> TimerNew,
   racy_ret |-> "none", atomic_ret |-> "none", from |-> 0, k |-> 0]

RaceNew ==
  [old |-> TimerNew, cell |-> TimerNew, v |-> 0, st |-> "done", dec |-> "done",
   prev |-> 0, ret |-> "none", ordered |-> FALSE]

\* no word given to the decoder yet
DecodeNew == [raw |-> 0, st |-> "none", d |-> NoRead, r |-> "none"]

\* the machine is what the specification is about, the stand-alone cells rest
\* Gfx::new with no call made on it yet
BitsNew ==
  [g |-> GfxNew, before |-> GfxNew, k |-> 0, x |-> 0, y |-> 0, val |-> FALSE, r |-> "none",
   got |-> [some |-> FALSE, bit |-> FALSE]]

CellsAside == cells = CellsNew /\ race = RaceNew /\ decode = DecodeNew /\ bits = BitsNew

Init ==
  /\ \E sc \in Scenarios : chip = load(CtxNew, sc.prog) /\ image = sc.prog /\ keypad = sc.keypad
  /\ result = Ok
  /\ last = "load"
  /\ entry = [pc |-> START_ADDR, rd |-> NoRead, fell |-> FALSE, gfx |-> GfxNew]
  /\ parity = 0
  /\ sched = NoSched
  /\ touched = NoTouched
  /\ CellsAside

\* One tick_chip call; raw is what the host's get_keys reports in it and
\* rnd what its gen_random returns if it is called.
TickChip ==
  \E raw \in RawInputs(keypad), rnd \in RandInputs(chip) :
    LET c0 == [chip EXCEPT !.ctx.keys = raw, !.ctx.log = <<>>]
        t == tick_chip(c0, rnd)
        rd == read_opcode(chip)
    IN  /\ chip' = t.c
        /\ result' = t.r
        /\ last' = "tick_chip"
        /\ entry' = [pc |-> chip.pc, rd |-> rd,
                     fell |-> \E k \in 0 .. KEY_COUNT - 1 : chip.ctx.keys[k] /\ ~raw[k],
                     gfx |-> chip.gfx]
        /\ parity' = 1 - parity
        /\ sched' = IF rd.ok /\ rd.op.t = "_FX18"
                    THEN [v |-> chip.v[rd.op.x], k |-> 0]
                    ELSE sched
        /\ touched' = [touched EXCEPT !.tick_chip = {"ctx", "keys", "pc"} \cup Written(chip, t.c)]
        /\ UNCHANGED <<keypad, cells, race, decode, image, bits>>

\* One tick_timers call
TickTimers ==
  LET c == tick_timers([chip EXCEPT !.ctx.log = <<>>])
  IN  /\ chip' = c
      /\ last' = "tick_timers"
      /\ sched' = IF sched.v >= 0 /\ sched.k < MaxCalls
                  THEN [sched EXCEPT !.k = sched.k + 1]
                  ELSE sched
      /\ touched' = [touched EXCEPT
                       !.tick_timers = {"delay_timer", "sound_timer"} \cup Written(chip, c)]
      /\ UNCHANGED <<result, keypad, entry, parity, cells, race, decode, image, bits>>

Next == TickChip \/ TickTimers

Spec == Init /\ [][Next]_vars

\* The key-reading scenarios alone, with tick_chip called again and again
InitKeys ==
  /\ \E p \in KeyPrograms : chip = load(CtxNew, p) /\ image = p
  /\ keypad = PressableKeys
  /\ result = Ok
  /\ last = "load"
  /\ entry = [pc |-> START_ADDR, rd |-> NoRead, fell |-> FALSE, gfx |-> GfxNew]
  /\ parity = 0
  /\ sched = NoSched
  /\ touched = NoTouched
  /\ CellsAside

\* tick_chip keeps being called.  Every TickChip step flips parity and no
\* other step touches it, so the steps that change parity are the TickChip
\* steps, and one is always possible.
TickChipCalled == parity' = 1 - parity

SpecLive == InitKeys /\ [][Next]_vars /\ WF_parity(TickChipCalled)

\* The timer programs alone, with tick_timers called again and again
InitTimers ==
  /\ \E p \in TimerPrograms : chip = load(CtxNew, p) /\ image = p
  /\ keypad = {}
  /\ result = Ok
  /\ last = "load"
  /\ entry = [pc |-> START_ADDR, rd |-> NoRead, fell |-> FALSE, gfx |-> GfxNew]
  /\ parity = 0
  /\ sched = NoSched
  /\ touched = NoTouched
  /\ CellsAside

SpecTimersLive == InitTimers /\ [][Next]_vars /\ WF_vars(TickTimers)

----------------------------------------------------------------------------
(* The two timer back-ends side by side: every operation is applied to a   *)
(* racy::Timer and to an atomic::Timer, and what each returned is kept.     *)

\* the machine rests while the stand-alone cells are operated
MachineAside ==
  /\ chip = Peach8New(CtxNew)
  /\ image = <<>>
  /\ result = Ok
  /\ last = "new"
  /\ keypad = {}
  /\ entry = [pc |-> START_ADDR, rd |-> NoRead, fell |-> FALSE, gfx |-> GfxNew]
  /\ parity = 0
  /\ sched = NoSched
  /\ touched = NoTouched

MachineUnchanged ==
  UNCHANGED <<chip, result, last, keypad, entry, parity, sched, touched, image>>

InitCells ==
  MachineAside /\ cells = CellsNew /\ race = RaceNew /\ decode = DecodeNew /\ bits = BitsNew

CellsStore ==
  /\ \E value \in CellValues :
       cells' = [op |-> "store", before |-> cells.atomic,
                 racy |-> RacyTimerStore(cells.racy, value),
                 atomic |-> TimerStore(cells.atomic, value),
                 racy_ret |-> "none", atomic_ret |-> "none",
                 from |-> value, k |-> 0]
  /\ UNCHANGED <<race, decode, bits>>
  /\ MachineUnchanged

CellsLoad ==
  /\ cells' = [cells EXCEPT !.op = "load", !.before = cells.atomic,
                            !.racy_ret = RacyTimerLoad(cells.racy),
                            !.atomic_ret = TimerLoad(cells.atomic)]
  /\ UNCHANGED <<race, decode, bits>>
  /\ MachineUnchanged

CellsDecrement ==
  /\ cells.k < MaxDecrements
  /\ LET r == RacyTimerDecrement(cells.racy)
         a == TimerDecrement(cells.atomic)
     IN  cells' = [cells EXCEPT !.op = "decrement", !.before = cells.atomic,
                                !.racy = r.t, !.atomic = a.t,
                                !.racy_ret = r.state, !.atomic_ret = a.state,
                                !.k = cells.k + 1]
  /\ UNCHANGED <<race, decode, bits>>
  /\ MachineUnchanged

NextCells == CellsStore \/ CellsLoad \/ CellsDecrement

SpecCells == InitCells /\ [][NextCells]_vars

----------------------------------------------------------------------------
(* An atomic::Timer that holds old, with a store(v), as FX15 and FX18 make *)
(* it, and a decrement, as tick_timers makes it, running concurrently.     *)
(* st and dec say how far each has got, prev is what fetch_update loaded   *)
(* last, ordered whether the store was complete before the decrement began. *)

InitRace ==
  /\ MachineAside
  /\ cells = CellsNew
  /\ decode = DecodeNew
  /\ bits = BitsNew
  /\ \E old \in CellValues, v \in CellValues :
       race = [old |-> old, cell |-> old, v |-> v, st |-> "pending", dec |-> "start",
               prev |-> 0, ret |-> "none", ordered |-> FALSE]

RaceStore ==
  /\ race.st = "pending"
  /\ race' = [race EXCEPT !.cell = TimerStore(race.cell, race.v),
                          !.st = "done",
                          !.ordered = (race.dec = "start")]
  /\ UNCHANGED <<cells, decode, bits>>
  /\ MachineUnchanged

RaceDecLoad ==
  /\ race.dec = "start"
  /\ race' = [race EXCEPT !.prev = TimerLoad(race.cell), !.dec = "loaded"]
  /\ UNCHANGED <<cells, decode, bits>>
  /\ MachineUnchanged

RaceDecCas ==
  /\ race.dec = "loaded"
  /\ LET r == FetchUpdateCas(race.cell, race.prev)
     IN  race' = IF r.ok
                 THEN [race EXCEPT !.cell = r.cell, !.dec = "done",
                                   !.ret = DecrementState(race.prev)]
                 ELSE [race EXCEPT !.prev = r.prev]
  /\ UNCHANGED <<cells, decode, bits>>
  /\ MachineUnchanged

NextRace == RaceStore \/ RaceDecLoad \/ RaceDecCas

SpecRace == InitRace /\ [][NextRace]_vars

----------------------------------------------------------------------------
(* Claims.  A step is a tick_chip call exactly when last' = "tick_chip";   *)
(* then chip is the machine before the call, chip' the machine after it,   *)
(* chip'.ctx.keys the raw keys the host reported in it and entry' the pc   *)
(* and the decoded instruction the call started from.                      *)

IsTickChip == last = "tick_chip"
EntryOp == entry.rd.op
EntryIs(t) == IsTickChip /\ entry.rd.ok /\ entry.rd.op.t = t

\* C1 (as claimed): whenever tick_chip returns an error, PC, V0..VF, I, the
\* call stack, memory, the framebuffer and both timers are what they were
\* when the call started (memory and I may differ after a failing FX55, the
\* registers and I after a failing FX65).
C1_ErrorKeepsState ==
  [][(last' = "tick_chip" /\ result' # Ok) =>
       /\ chip'.pc = chip.pc
       /\ chip'.stack = chip.stack
       /\ chip'.gfx = chip.gfx
       /\ chip'.delay_timer = chip.delay_timer
       /\ chip'.sound_timer = chip.sound_timer
       /\ (~(entry'.rd.ok /\ entry'.rd.op.t = "_FX65") => chip'.v = chip.v)
       /\ (~(entry'.rd.ok /\ entry'.rd.op.t = "_FX55") => chip'.memory = chip.memory)
       /\ (~(entry'.rd.ok /\ entry'.rd.op.t \in {"_FX55", "_FX65"}) => chip'.i = chip.i)
    ]_vars

\* C2 (as claimed): on_frame is not called in a tick_chip that fails and is
\* called exactly once, as the last host call, in a tick_chip that succeeds.
OnFrameCalls == Cardinality({n \in 1 .. Len(chip.ctx.log) : chip.ctx.log[n] = "on_frame"})

C2_FrameOnlyOnSuccess ==
  IsTickChip =>
    /\ (result # Ok => OnFrameCalls = 0)
    /\ (result = Ok => OnFrameCalls = 1 /\ chip.ctx.log[Len(chip.ctx.log)] = "on_frame")

\* C3: in a tick_chip, get_keys is called once and first and every key is
\* advanced by its own raw input, also when the tick fails; the instruction
\* then runs on the advanced keys (a key wait completes in the tick of the
\* release, a key skip follows the raw input of the same tick); on_frame is
\* the last host call and the frame it is given is the framebuffer the
\* instruction left.
GetKeysCalls(c) == Cardinality({n \in 1 .. Len(c.ctx.log) : c.ctx.log[n] = "get_keys"})

C3_TickOrder ==
  [][last' = "tick_chip" =>
       LET log == chip'.ctx.log
           op == entry'.rd.op
           raw == chip'.ctx.keys
       IN  /\ Len(log) >= 1 /\ log[1] = "get_keys" /\ GetKeysCalls(chip') = 1
           /\ \A k \in 0 .. KEY_COUNT - 1 :
                chip'.keys[k] = KeyStateUpdate(chip.keys[k], raw[k])
           /\ (entry'.rd.ok /\ op.t = "_FX0A" /\ entry'.fell => chip'.pc = chip.pc + 2)
           /\ (entry'.rd.ok /\ op.t = "_EX9E" /\ chip.v[op.x] < 16 /\ result' = Ok =>
                 (chip'.pc = chip.pc + 4) = raw[chip.v[op.x]])
           /\ (result' = Ok => log[Len(log)] = "on_frame")
           /\ (log[Len(log)] = "on_frame" =>
                 chip'.ctx.frame.some /\ chip'.ctx.frame.raw = chip'.gfx)
    ]_vars

C3_Witness ==
  /\ EntryIs("_DXYN") /\ result = Ok
  /\ chip.gfx # GfxNew /\ chip.ctx.frame.raw = chip.gfx
  /\ chip.ctx.log = <<"get_keys", "on_frame">>
  /\ \E k \in 0 .. KEY_COUNT - 1 : chip.keys[k] = "Pressed"

\* C4: a successful instruction that does not assign PC leaves PC 2 greater;
\* 1NNN, 2NNN and BNNN leave PC equal to their target.
PcAssigningOps == {"_1NNN", "_2NNN", "_BNNN", "_00EE", "_FX0A"}

\* the condition of a skip instruction, on registers v and key states keys
SkipCondition(op, v, keys) ==
  CASE op.t = "_3XNN" -> v[op.x] = op.nn
    [] op.t = "_4XNN" -> v[op.x] # op.nn
    [] op.t = "_5XY0" -> v[op.x] = v[op.y]
    [] op.t = "_9XY0" -> v[op.x] # v[op.y]
    [] op.t = "_EX9E" -> v[op.x] < 16 /\ keys[v[op.x] % 16] \in {"Pressed", "Down"}
    [] op.t = "_EXA1" -> ~(v[op.x] < 16 /\ keys[v[op.x] % 16] \in {"Pressed", "Down"})
    [] OTHER -> FALSE

C4_PcAdvance ==
  [][(last' = "tick_chip" /\ result' = Ok) =>
       LET op == entry'.rd.op
       IN  /\ entry'.rd.ok
           /\ (op.t \in {"_1NNN", "_2NNN"} => chip'.pc = op.nnn)
           /\ (op.t = "_BNNN" => chip'.pc = op.nnn + chip.v[0])
           /\ (op.t \notin PcAssigningOps /\ ~SkipCondition(op, chip.v, chip'.keys)
                 => chip'.pc = chip.pc + 2)
    ]_vars

C4_Witness ==
  /\ EntryIs("_BNNN") /\ result = Ok
  /\ chip.v[0] = 2 /\ chip.pc = EntryOp.nnn + 2

\* C5: 3XNN, 4XNN, 5XY0 and 9XY0 advance PC by 4 when their condition holds
\* and by 2 when it does not; they fail only when the condition holds and
\* PC + 4 is beyond the end of memory.  6XNN leaves NN in Vx, so 6XNN followed
\* by 3XNN with the same x and nn skips.
RegisterSkipOps == {"_3XNN", "_4XNN", "_5XY0", "_9XY0"}

ReleasedKeys(c) == {k \in 0 .. KEY_COUNT - 1 : c.keys[k] = "Released"}

C6_WaitForKey ==
  [][(last' = "tick_chip" /\ entry'.rd.ok /\ entry'.rd.op.t = "_FX0A") =>
       LET x == entry'.rd.op.x
           released == ReleasedKeys(chip')
       IN  /\ result' = Ok
           /\ (released = {} => chip'.pc = chip.pc /\ chip'.v = chip.v)
           /\ (released # {} =>
                 /\ chip'.pc = chip.pc + 2
                 /\ chip'.v[x] \in released
                 /\ \A m \in released : chip'.v[x] <= m
                 /\ \A r \in 0 .. 15 : r # x => chip'.v[r] = chip.v[r])
    ]_vars

C6_Witness ==
  /\ EntryIs("_FX0A") /\ result = Ok
  /\ chip.keys[0] = "Released" /\ chip.keys[15] = "Released"
  /\ chip.v[EntryOp.x] = 0 /\ chip.pc = entry.pc + 2

\* C7: an FX0A completes in exactly the ticks in which some key's raw input
\* went from true to false, so a key held over several ticks and then let go
\* completes one FX0A, in the tick of the release, and none in the ticks
\* before or after it.
C7_OncePerRelease ==
  [][(last' = "tick_chip" /\ entry'.rd.ok /\ entry'.rd.op.t = "_FX0A") =>
       LET fell == \E k \in 0 .. KEY_COUNT - 1 : chip.ctx.keys[k] /\ ~chip'.ctx.keys[k]
       IN  /\ (chip'.pc = chip.pc + 2) = fell
           /\ (chip'.pc = chip.pc) = ~fell
    ]_vars

C7_Witness ==
  /\ EntryIs("_FX0A") /\ entry.pc = START_ADDR + 2 /\ chip.pc = START_ADDR + 4
  /\ result = Ok /\ entry.fell

\* C9: every key k is advanced by raw input k according to the table
\* Up/true -> Pressed, Up/false -> Up, Pressed/true -> Down,
\* Pressed/false -> Released, Down/true -> Down, Down/false -> Released,
\* Released/true -> Pressed, Released/false -> Up.
TransitionTable ==
  [p \in KeyStates \X BOOLEAN |->
     CASE p = <<"Up", TRUE>>        -> "Pressed"
       [] p = <<"Up", FALSE>>       -> "Up"
       [] p = <<"Pressed", TRUE>>   -> "Down"
       [] p = <<"Pressed", FALSE>>  -> "Released"
       [] p = <<"Down", TRUE>>      -> "Down"
       [] p = <<"Down", FALSE>>     -> "Released"
       [] p = <<"Released", TRUE>>  -> "Pressed"
       [] p = <<"Released", FALSE>> -> "Up"]

C9_KeyTable ==
  [][last' = "tick_chip" =>
       \A k \in 0 .. KEY_COUNT - 1 :
         chip'.keys[k] = TransitionTable[<<chip.keys[k], chip'.ctx.keys[k]>>]
    ]_vars

C9_Witness ==
  /\ last = "tick_chip"
  /\ chip.keys[0] = "Released" /\ ~chip.ctx.keys[0]
  /\ chip.keys[15] = "Down" /\ chip.ctx.keys[15]

\* C10: after an update a key is Pressed exactly when its raw input rose in
\* that update and Released exactly when it fell; neither state lasts over
\* two consecutive updates.
C10_Edges ==
  [][last' = "tick_chip" =>
       \A k \in 0 .. KEY_COUNT - 1 :
         LET before == chip.ctx.keys[k]
             now == chip'.ctx.keys[k]
         IN  /\ (chip'.keys[k] = "Pressed") = (~before /\ now)
             /\ (chip'.keys[k] = "Released") = (before /\ ~now)
             /\ (chip.keys[k] = "Pressed" => chip'.keys[k] # "Pressed")
             /\ (chip.keys[k] = "Released" => chip'.keys[k] # "Released")
    ]_vars

C10_Witness ==
  /\ last = "tick_chip"
  /\ chip.keys[0] = "Pressed" /\ chip.keys[15] = "Released"

Waiting == read_opcode(chip).ok /\ read_opcode(chip).op.t = "_FX0A"

\* the last step was a tick_chip in which some raw input went from true to false
Fell == last = "tick_chip" /\ entry.fell

\* the last step was a tick_chip that took PC past an FX0A
WaitEnded == EntryIs("_FX0A") /\ chip.pc = entry.pc + 2

C8_WaitEnds ==
  /\ [][(last' = "tick_chip" /\ entry'.rd.ok /\ entry'.rd.op.t = "_FX0A" /\ ~entry'.fell)
          => (result' = Ok /\ chip'.pc = chip.pc)]_vars
  /\ ([]<>Fell) => (Waiting ~> WaitEnded)

C8_Witness ==
  /\ Fell /\ WaitEnded /\ entry.pc = START_ADDR + 4
  /\ result = Ok /\ ~Waiting

\* C11: the racy and the atomic cell hold the same value and returned the
\* same thing after every sequence of store, load and decrement; decrement on
\* 0 leaves 0 and returns Off, on 1 writes 0 and returns Finished, on v >= 2
\* writes v - 1 and returns On; k decrements after a store of v leave
\* max(v - k, 0).
Max(a, b) == IF a >= b THEN a ELSE b

C11_CellContract ==
  /\ cells.racy = cells.atomic
  /\ cells.racy_ret = cells.atomic_ret
  /\ cells.atomic \in 0 .. 255
  /\ cells.atomic = Max(cells.from - cells.k, 0)
  /\ (cells.op = "load" => cells.atomic_ret = cells.atomic /\ cells.racy_ret = cells.racy)
  /\ (cells.op = "decrement" =>
        /\ (cells.before = 0 => cells.atomic = 0 /\ cells.atomic_ret = "Off")
        /\ (cells.before = 1 => cells.atomic = 0 /\ cells.atomic_ret = "Finished")
        /\ (cells.before >= 2 =>
              cells.atomic = cells.before - 1 /\ cells.atomic_ret = "On"))

C11_Witness ==
  /\ cells.op = "decrement" /\ cells.from = 101 /\ cells.k = 102
  /\ cells.racy = 0 /\ cells.atomic = 0
  /\ cells.racy_ret = "Off" /\ cells.atomic_ret = "Off"

\* C12: when a tick_timers call has brought the sound timer from a non-zero
\* value to zero and tick_timers keeps being called, then the host's
\* sound_off is called, unless FX18 stores the sound timer anew.
ReachedZero ==
  /\ last = "tick_timers"
  /\ sched.v >= 1 /\ sched.k = sched.v
  /\ chip.sound_timer = 0

SoundOffCalled ==
  /\ last = "tick_timers"
  /\ \E n \in 1 .. Len(chip.ctx.log) : chip.ctx.log[n] = "sound_off"

StoredAnew == sched.v >= 0 /\ sched.k = 0

C12_SoundOffFollows == [](ReachedZero => <>(SoundOffCalled \/ StoredAnew))

C12_Witness ==
  /\ SoundOffCalled /\ sched.v = 2 /\ sched.k = 3
  /\ chip.sound_timer = 0 /\ ~chip.ctx.sound

\* C13: after FX18 stored v and with no store since, the n-th tick_timers
\* call calls sound_on when n <= v - 1, makes no host call when n = v (the
\* timer then reads 0 and, for v >= 2, the host's sound is still on), and
\* calls sound_off when n >= v + 1.  With v = 1 sound_on is never called.
C13_SoundSchedule ==
  [][(last' = "tick_timers" /\ sched.v >= 0) =>
       LET v == sched.v
           n == sched'.k
           exact == sched.k < MaxCalls
           log == chip'.ctx.log
       IN  /\ (exact /\ n <= v - 1 => log = <<"sound_on">> /\ chip'.ctx.sound)
           /\ (exact /\ n = v =>
                 /\ log = <<>>
                 /\ chip'.sound_timer = 0
                 /\ (v >= 2 => chip'.ctx.sound))
           /\ (n >= v + 1 => log = <<"sound_off">> /\ ~chip'.ctx.sound)
           /\ (v = 1 => \A m \in 1 .. Len(log) : log[m] # "sound_on")
    ]_vars

C13_Witness ==
  /\ last = "tick_timers" /\ sched.v = 3 /\ sched.k = 3
  /\ chip.sound_timer = 0 /\ chip.ctx.sound /\ chip.ctx.log = <<>>

\* C14: a tick_timers call decrements the delay timer once and the sound
\* timer once, leaves PC, V0..VF, I, the call stack, memory, the framebuffer
\* and the key states as they were, and calls no host method other than
\* sound_on and sound_off.
C14_TimersOnly ==
  [][last' = "tick_timers" =>
       /\ chip'.delay_timer = Max(chip.delay_timer - 1, 0)
       /\ chip'.sound_timer = Max(chip.sound_timer - 1, 0)
       /\ chip'.pc = chip.pc /\ chip'.v = chip.v /\ chip'.i = chip.i
       /\ chip'.stack = chip.stack /\ chip'.memory = chip.memory
       /\ chip'.gfx = chip.gfx /\ chip'.keys = chip.keys
       /\ chip'.ctx.keys = chip.ctx.keys /\ chip'.ctx.frame = chip.ctx.frame
       /\ \A n \in 1 .. Len(chip'.ctx.log) : chip'.ctx.log[n] \in {"sound_on", "sound_off"}
    ]_vars

C14_Witness ==
  /\ last = "tick_timers"
  /\ chip.delay_timer = 1 /\ chip.sound_timer = 2
  /\ chip.pc = START_ADDR + 6 /\ chip.v[0] = 3
  /\ chip.ctx.log = <<"sound_on">>

\* C15: the fields of Peach8 that a tick_chip call and a tick_timers call
\* both access are among delay_timer and sound_timer; ctx, the host
\* collaborator, is not among the fields both access.
TimerCells == {"delay_timer", "sound_timer"}

C15_OnlyTimersShared ==
  (touched.tick_chip \cap touched.tick_timers) \subseteq TimerCells

\* C16: however a store(v) and a decrement of an atomic cell interleave, the
\* cell always holds a byte, after both it holds v or max(v - 1, 0), and a
\* decrement that began after the store was complete loaded v, left
\* max(v - 1, 0) and returned the state of v.
C16_StoreNotLost ==
  /\ race.cell \in 0 .. 255
  /\ (race.st = "done" /\ race.dec = "done" =>
        race.cell \in {race.v, Max(race.v - 1, 0)})
  /\ (race.st = "done" /\ race.dec = "done" /\ race.ordered =>
        /\ race.prev = race.v
        /\ race.cell = Max(race.v - 1, 0)
        /\ race.ret = DecrementState(race.v))

C16_Witness ==
  /\ race.st = "done" /\ race.dec = "done" /\ ~race.ordered
  /\ race.old = 2 /\ race.v = 101
  /\ race.prev = 101 /\ race.cell = 100 /\ race.ret = "On"

\* C17: a successful 2NNN at PC = p pushes p and sets PC to NNN; a successful
\* 00EE pops the newest entry q and leaves PC at q + 2, the instruction after
\* the call that pushed q; no other instruction changes the stack; 00EE fails,
\* with the error of a return outside a subroutine, exactly when the stack is
\* empty.
Front(q) == SubSeq(q, 1, Len(q) - 1)

C17_CallReturnLifo ==
  [][(last' = "tick_chip" /\ entry'.rd.ok) =>
       LET op == entry'.rd.op
           depth == Len(chip.stack)
       IN  /\ (op.t = "_2NNN" /\ result' = Ok =>
                 chip'.stack = Append(chip.stack, chip.pc) /\ chip'.pc = op.nnn)
           /\ (op.t = "_00EE" =>
                 /\ (result' # Ok) = (depth = 0)
                 /\ (result' # Ok => result' = ErrReturn /\ chip'.stack = chip.stack)
                 /\ (result' = Ok =>
                       /\ chip'.pc = chip.stack[depth] + 2
                       /\ chip'.stack = Front(chip.stack)))
           /\ (op.t \notin {"_2NNN", "_00EE"} => chip'.stack = chip.stack)
    ]_vars

C17_Witness ==
  /\ EntryIs("_00EE") /\ result = Ok
  /\ entry.pc = START_ADDR + 8 /\ chip.pc = START_ADDR + 2 /\ chip.stack = <<>>

\* C18: the stack never holds more than 64 entries; 2NNN with NNN >= 0x200
\* succeeds when the depth is below 64 and fails with the stack-full error
\* when it is 64, leaving the stack and PC as they were.
C18_StackBound ==
  /\ [](Len(chip.stack) <= STACK_CAPACITY)
  /\ [][(last' = "tick_chip" /\ entry'.rd.ok /\ entry'.rd.op.t = "_2NNN"
           /\ entry'.rd.op.nnn >= START_ADDR) =>
          /\ (Len(chip.stack) < STACK_CAPACITY =>
                result' = Ok /\ Len(chip'.stack) = Len(chip.stack) + 1)
          /\ (Len(chip.stack) = STACK_CAPACITY =>
                /\ result' = ErrStackFull
                /\ chip'.stack = chip.stack
                /\ chip'.pc = chip.pc)
       ]_vars

C18_Witness ==
  /\ EntryIs("_2NNN") /\ result = ErrStackFull
  /\ Len(chip.stack) = STACK_CAPACITY /\ chip.pc = START_ADDR
  /\ \A n \in 1 .. STACK_CAPACITY : chip.stack[n] = START_ADDR

\* C19: 1NNN and 2NNN fail with the jump error exactly when NNN < 0x200;
\* BNNN takes t = NNN + V0, not reduced to 8 or 12 bits, fails with the jump
\* error exactly when t < 0x200, with the set-pc error exactly when
\* t >= 4096, and otherwise leaves PC = t; each of these failures leaves PC
\* and the stack as they were.
C19_JumpTargets ==
  [][(last' = "tick_chip" /\ entry'.rd.ok) =>
       LET op == entry'.rd.op
           t == op.nnn + chip.v[0]
           kept == chip'.pc = chip.pc /\ chip'.stack = chip.stack
       IN  /\ (op.t \in {"_1NNN", "_2NNN"} =>
                 /\ (result' = ErrJump) = (op.nnn < START_ADDR)
                 /\ (result' = ErrJump => kept))
           /\ (op.t = "_1NNN" => result' \in {Ok, ErrJump})
           /\ (op.t = "_BNNN" =>
                 /\ (result' = ErrJump) = (t < START_ADDR)
                 /\ (result' = ErrSetPc) = (t >= MEM_LENGTH)
                 /\ (result' = Ok) = (t >= START_ADDR /\ t < MEM_LENGTH)
                 /\ (result' = Ok => chip'.pc = t)
                 /\ (result' # Ok => kept))
    ]_vars

C19_Witness ==
  /\ EntryIs("_BNNN") /\ result = Ok
  /\ EntryOp.nnn = 752 /\ chip.v[0] = 32 /\ chip.pc = 784

\* C20: the fetch succeeds exactly when PC + 1 < 4096 and then gives the
\* decoder memory[PC] * 256 + memory[PC + 1]; otherwise the tick fails with
\* the read error and executes nothing.  This holds for odd PC, PC = 4095
\* and PC = 4096 as for any other.
C20_Fetch ==
  [][last' = "tick_chip" =>
       LET pc == chip.pc
       IN  /\ (entry'.rd.err = ErrReadMemory) = ~(pc + 1 < MEM_LENGTH)
           /\ (pc + 1 < MEM_LENGTH =>
                 entry'.rd = try_from(chip.memory[pc] * 256 + chip.memory[pc + 1]))
           /\ (~(pc + 1 < MEM_LENGTH) =>
                 /\ result' = ErrReadMemory
                 /\ chip'.pc = pc /\ chip'.v = chip.v /\ chip'.i = chip.i
                 /\ chip'.stack = chip.stack /\ chip'.memory = chip.memory
                 /\ chip'.gfx = chip.gfx
                 /\ chip'.delay_timer = chip.delay_timer
                 /\ chip'.sound_timer = chip.sound_timer)
    ]_vars

C20_Witness ==
  /\ last = "tick_chip" /\ entry.pc = START_ADDR + 3
  /\ entry.rd.ok /\ EntryOp.t = "_1NNN" /\ EntryOp.nnn = START_ADDR + 5
  /\ result = Ok /\ chip.pc = START_ADDR + 5

----------------------------------------------------------------------------
(* The decoder by itself: a 16-bit word is given to try_from, and the      *)
(* instruction it answers with is executed on a new machine.               *)

AllWords == 0 .. 65535

InitDecode ==
  /\ MachineAside
  /\ cells = CellsNew
  /\ race = RaceNew
  /\ bits = BitsNew
  /\ \E raw \in AllWords : decode = [raw |-> raw, st |-> "word", d |-> NoRead, r |-> "none"]

DecodeWord ==
  /\ decode.st = "word"
  /\ decode' = [decode EXCEPT !.st = "decoded", !.d = try_from(decode.raw)]
  /\ UNCHANGED <<cells, race, bits>>
  /\ MachineUnchanged

ExecuteDecoded ==
  /\ decode.st = "decoded"
  /\ decode.d.ok
  /\ \E rnd \in (IF decode.d.op.t = "_CXNN" THEN RandBytes ELSE {0}) :
       decode' = [decode EXCEPT !.st = "executed",
                                !.r = execute(chip, decode.d.op, rnd).r]
  /\ UNCHANGED <<cells, race, bits>>
  /\ MachineUnchanged

NextDecode == DecodeWord \/ ExecuteDecoded

SpecDecode == InitDecode /\ [][NextDecode]_vars

\* the words the documentation lists as malformed
Malformed(raw) ==
  LET first == read_first(raw)
      lastn == read_last(raw)
      nn == read_nn(raw)
  IN  \/ first \in {5, 9} /\ lastn # 0
      \/ first = 8 /\ lastn \notin (0 .. 7) \cup {14}
      \/ first = 14 /\ nn \notin {\H9E, \HA1}
      \/ first = 15 /\ nn \notin {\H07, \H0A, \H15, \H18, \H1E, \H29, \H33, \H55, \H65}

\* C21: the decoder answers every 16-bit word; it answers with the
\* unknown-operation error exactly for 5XY_ and 9XY_ with a last nibble other
\* than 0, 8XY_ with a last nibble outside 0..7 and E, EXnn with nn outside
\* 9E, A1 and FXnn with nn outside 07, 0A, 15, 18, 1E, 29, 33, 55, 65, and
\* with an instruction for every other word.  A 0NNN word other than 00E0
\* and 00EE, the zero word of empty memory included, is decoded and fails
\* only when executed, with the machine-subroutine error.
C21_Decoder ==
  LET raw == decode.raw
      d == decode.d
  IN  /\ (decode.st \in {"decoded", "executed"} =>
            /\ d.ok = ~Malformed(raw)
            /\ (d.ok => d.err = Ok /\ d.op.t # "none")
            /\ (~d.ok => d.err = ErrUnknownOp)
            /\ (read_first(raw) = 0 /\ read_nnn(raw) \notin {\H0E0, \H0EE} =>
                  d.ok /\ d.op.t = "_0NNN" /\ d.op.nnn = raw))
      /\ (decode.st = "executed" =>
            (decode.r = ErrMlSubroutine) = (d.op.t = "_0NNN"))

C21_Witness ==
  /\ decode.st = "decoded" /\ decode.raw = \H8FFF
  /\ ~decode.d.ok /\ decode.d.err = ErrUnknownOp

\* the 16-bit word an instruction value stands for: the fixed nibbles of its
\* variant with its fields in their places
Encode(op) ==
  LET nnnForm == [_0NNN |-> 0, _1NNN |-> 1, _2NNN |-> 2, _ANNN |-> 10, _BNNN |-> 11]
      xnnForm == [_3XNN |-> 3, _4XNN |-> 4, _6XNN |-> 6, _7XNN |-> 7, _CXNN |-> 12]
      xyForm == [_5XY0 |-> <<5, 0>>, _9XY0 |-> <<9, 0>>,
                 _8XY0 |-> <<8, 0>>, _8XY1 |-> <<8, 1>>, _8XY2 |-> <<8, 2>>,
                 _8XY3 |-> <<8, 3>>, _8XY4 |-> <<8, 4>>, _8XY5 |-> <<8, 5>>,
                 _8XY6 |-> <<8, 6>>, _8XY7 |-> <<8, 7>>, _8XYE |-> <<8, 14>>]
      xForm == [_EX9E |-> <<14, \H9E>>, _EXA1 |-> <<14, \HA1>>,
                _FX07 |-> <<15, \H07>>, _FX0A |-> <<15, \H0A>>, _FX15 |-> <<15, \H15>>,
                _FX18 |-> <<15, \H18>>, _FX1E |-> <<15, \H1E>>, _FX29 |-> <<15, \H29>>,
                _FX33 |-> <<15, \H33>>, _FX55 |-> <<15, \H55>>, _FX65 |-> <<15, \H65>>]
  IN  CASE op.t = "_00E0" -> \H00E0
        [] op.t = "_00EE" -> \H00EE
        [] op.t \in DOMAIN nnnForm -> nnnForm[op.t] * 4096 + op.nnn
        [] op.t \in DOMAIN xnnForm -> xnnForm[op.t] * 4096 + op.x * 256 + op.nn
        [] op.t \in DOMAIN xyForm ->
             xyForm[op.t][1] * 4096 + op.x * 256 + op.y * 16 + xyForm[op.t][2]
        [] op.t = "_DXYN" -> 13 * 4096 + op.x * 256 + op.y * 16 + op.n
        [] op.t \in DOMAIN xForm -> xForm[op.t][1] * 4096 + op.x * 256 + xForm[op.t][2]

\* C22: for every word the decoder accepts, the decoded variant with its
\* fields x, y, n, nn, nnn encodes back to that word, so no two accepted
\* words decode to the same instruction value.
C22_RoundTrip ==
  (decode.st \in {"decoded", "executed"} /\ decode.d.ok) =>
    /\ Encode(decode.d.op) = decode.raw
    /\ decode.d.op.x \in 0 .. 15 /\ decode.d.op.y \in 0 .. 15 /\ decode.d.op.n \in 0 .. 15
    /\ decode.d.op.nn \in 0 .. 255 /\ decode.d.op.nnn \in 0 .. 4095

C22_Witness ==
  /\ decode.st = "decoded" /\ decode.raw = \HD9AF
  /\ decode.d.ok /\ decode.d.op = Op("_DXYN", 9, 10, 15, 0, 0)
  /\ Encode(decode.d.op) = \HD9AF

----------------------------------------------------------------------------
(* Drawing: programs that put two font glyphs on the screen, at the top    *)
(* left and at the bottom right, and then draw one sprite three times at    *)
(* given coordinates; and programs that draw from the end of memory.        *)

\* 0 .. LowCoords-1 are the small coordinates the sprite is drawn at
LowCoords == 1
\* 0 .. LowRows-1, 5 and 15 are the heights N of the sprite
LowRows == 2

\* Vx: at the left edge, clipped at the right edge, reduced modulo 64
DrawXs == {b \in 0 .. 255 : b < LowCoords} \cup {60, 63, 67, 255}
\* Vy: at the top edge, clipped at the bottom edge, reduced modulo 32
DrawYs == {b \in 0 .. 255 : b < LowCoords} \cup {28, 31, 34, 255}
DrawNs == {n \in 0 .. 15 : n < LowRows} \cup {5, 15}

\* the rows of the sprite, the last byte is padding
SpriteWords == <<\HFF81, \H0180, \HA500, \H3C18, \HF00F, \H55AA, \H1008, \HC300>>

\* the sprite follows the thirteen instruction words
SpriteAddr == START_ADDR + 26
\* the sprite is read from its first row or from its third
SpriteOffsets == {0, 2}

W_NNN(first, nnn) == first * 4096 + nnn

DrawProgram(x, y, vx, vy, n, off) ==
  Bytes(<<W_NNN(10, FONTSET_ADDR), W_XY(13, 4, 5, 5),
          W_XNN(6, 4, 60), W_XNN(6, 5, 28),
          W_NNN(10, FONTSET_ADDR + 5), W_XY(13, 4, 5, 5),
          W_NNN(10, SpriteAddr + off), W_XNN(6, x, vx), W_XNN(6, y, vy),
          W_XY(13, x, y, n), W_XY(13, x, y, n), W_XY(13, x, y, n),
          \H0000>> \o SpriteWords)

\* I and N around the end of memory, with sprite rows in the last 16 bytes
EndDraws ==
  {<<4095, 0>>, <<4095, 1>>, <<4094, 1>>, <<4091, 5>>, <<4090, 5>>, <<4092, 5>>,
   <<4081, 15>>, <<4080, 15>>, <<4085, 15>>}

EndDrawProgram(i, n) ==
  Image(<<W_NNN(10, i), W_XY(13, 0, 1, n), W_XY(13, 0, 1, n)>>, 4080, SpriteWords)

DrawPrograms ==
  {DrawProgram(0, 1, vx, vy, n, off) :
     <<vx, vy, n, off>> \in DrawXs \X DrawYs \X DrawNs \X SpriteOffsets}
  \cup {DrawProgram(xy[1], xy[2], vx, vy, 5, 0) :
          <<xy, vx, vy>> \in {<<15, 1>>, <<0, 15>>, <<15, 15>>} \X DrawXs \X DrawYs}
  \cup {EndDrawProgram(e[1], e[2]) : e \in EndDraws}

InitDraw ==
  /\ \E p \in DrawPrograms : chip = load(CtxNew, p) /\ image = p
  /\ keypad = {}
  /\ result = Ok
  /\ last = "load"
  /\ entry = [pc |-> START_ADDR, rd |-> NoRead, fell |-> FALSE, gfx |-> GfxNew]
  /\ parity = 0
  /\ sched = NoSched
  /\ touched = NoTouched
  /\ CellsAside

\* the drawing programs under tick_chip calls alone
SpecDraw == InitDraw /\ [][TickChip]_vars

\* pixel (px, py) of a framebuffer
Pixel(g, px, py) == GfxGetBit(g, px, py).bit

\* the sprite rectangle of a DXYN met by machine c: its corner, its clipped
\* width and height, and the source bit the sprite has for a pixel
SpriteRect(c, op) ==
  LET sx == c.v[op.x] % WIDTH
      sy == c.v[op.y] % HEIGHT
  IN  [sx |-> sx, sy |-> sy, cols |-> Min(8, WIDTH - sx), rows |-> Min(op.n, HEIGHT - sy)]

InRect(rect, px, py) ==
  /\ px >= rect.sx /\ px < rect.sx + rect.cols
  /\ py >= rect.sy /\ py < rect.sy + rect.rows

SourceBit(c, rect, px, py) ==
  InRect(rect, px, py) /\ Msb0Bit(c.memory[c.i + (py - rect.sy)], px - rect.sx) = 1

IsDraw == last' = "tick_chip" /\ entry'.rd.ok /\ entry'.rd.op.t = "_DXYN"

\* C23: a successful DXYN starts at (Vx mod 64, Vy mod 32) and clips: every
\* pixel of the rectangle of min(8, 64 - sx) columns and min(N, 32 - sy) rows
\* is its old value xor bit 7 - c of memory[I + r], every other pixel keeps
\* its value; memory, I and the registers other than VF are unchanged.
C23_DrawClips ==
  [][(IsDraw /\ result' = Ok) =>
       LET rect == SpriteRect(chip, entry'.rd.op)
       IN  /\ \A px \in 0 .. WIDTH - 1, py \in 0 .. HEIGHT - 1 :
                Pixel(chip'.gfx, px, py) =
                  (Pixel(chip.gfx, px, py) # SourceBit(chip, rect, px, py))
           /\ chip'.memory = chip.memory
           /\ chip'.i = chip.i
           /\ \A r \in 0 .. 14 : chip'.v[r] = chip.v[r]
    ]_vars

\* a sprite drawn at (255, 255): it starts at (63, 31) and one pixel is drawn
C23_Witness ==
  /\ EntryIs("_DXYN") /\ result = Ok /\ entry.pc = START_ADDR + 18
  /\ chip.v[0] = 255 /\ chip.v[1] = 255 /\ EntryOp.n = 15
  /\ Pixel(entry.gfx, 63, 31) # Pixel(chip.gfx, 63, 31)
  /\ \A px \in 0 .. WIDTH - 1, py \in 0 .. HEIGHT - 1 :
       (px # 63 \/ py # 31) => Pixel(entry.gfx, px, py) = Pixel(chip.gfx, px, py)

\* C24: after a successful DXYN, VF is 1 if some pixel of the clipped
\* rectangle had its source bit and its framebuffer bit both 1 before the
\* draw, and 0 otherwise (N = 0 included); this holds also when x or y
\* designates VF, the coordinates being the register values before the draw.
C24_CollisionFlag ==
  [][(IsDraw /\ result' = Ok) =>
       LET rect == SpriteRect(chip, entry'.rd.op)
           collided == \E px \in 0 .. WIDTH - 1, py \in 0 .. HEIGHT - 1 :
                         SourceBit(chip, rect, px, py) /\ Pixel(chip.gfx, px, py)
       IN  /\ chip'.v[15] = IF collided THEN 1 ELSE 0
           /\ (entry'.rd.op.n = 0 => chip'.v[15] = 0)
    ]_vars

\* DF15 with VF = 60 on entry: drawn at column 60, and VF is the flag after
C24_Witness ==
  /\ EntryIs("_DXYN") /\ result = Ok /\ entry.pc = START_ADDR + 18
  /\ EntryOp.x = 15 /\ EntryOp.y = 1 /\ chip.v[1] = 28
  /\ chip.v[15] = 1
  /\ Pixel(entry.gfx, 60, 28) # Pixel(chip.gfx, 60, 28)

\* C25 (as claimed): DXYN fails with the read error exactly when
\* I + N > 4096; whenever I + N <= 4096 (a sprite whose last row is
\* memory[4095], or N = 0 with I = 4095) the draw succeeds; a failing draw
\* leaves the framebuffer and VF as they were.
C25_DrawBounds ==
  [][IsDraw =>
       LET n == entry'.rd.op.n
       IN  /\ (result' = ErrReadMemory) = (chip.i + n > MEM_LENGTH)
           /\ (chip.i + n <= MEM_LENGTH => result' = Ok)
           /\ (result' # Ok => chip'.gfx = chip.gfx /\ chip'.v[15] = chip.v[15])
    ]_vars

\* a step that is the second of two successful draws in a row by the same
\* DXYN, with x and y other than F: the first left I, memory and the
\* coordinates as they were, and entry.gfx is the framebuffer before it
SecondDraw ==
  /\ EntryIs("_DXYN") /\ result = Ok
  /\ IsDraw /\ result' = Ok
  /\ entry'.rd.op = entry.rd.op
  /\ entry.rd.op.x # 15 /\ entry.rd.op.y # 15

\* C26 (as claimed): the second of two equal draws returns the framebuffer to
\* what it was before the first, and sets VF to 1 exactly when some source
\* bit of the sprite is 1.
C26_DrawTwiceAsStated ==
  [][SecondDraw =>
       /\ chip'.gfx = entry.gfx
       /\ (chip'.v[15] = 1) =
            (\E r \in 0 .. entry'.rd.op.n - 1 : chip.memory[chip.i + r] # 0)
    ]_vars

\* C26: the second of two equal draws returns the framebuffer to what it was
\* before the first, and sets VF to 1 exactly when some pixel of the clipped
\* rectangle has source bit 1 and was off before the first draw (VF is 0
\* otherwise).
C26_DrawTwice ==
  [][SecondDraw =>
       LET rect == SpriteRect(chip, entry'.rd.op)
           lit == \E px \in 0 .. WIDTH - 1, py \in 0 .. HEIGHT - 1 :
                    SourceBit(chip, rect, px, py) /\ ~Pixel(entry.gfx, px, py)
       IN  /\ chip'.gfx = entry.gfx
           /\ chip'.v[15] = IF lit THEN 1 ELSE 0
    ]_vars

\* the second draw of the sprite at (60, 0): it takes the sprite off again
C26_Witness ==
  /\ EntryIs("_DXYN") /\ result = Ok /\ entry.pc = START_ADDR + 20
  /\ EntryOp.x = 0 /\ EntryOp.y = 1 /\ EntryOp.n = 15
  /\ chip.v[0] = 60 /\ chip.v[1] = 0 /\ chip.v[15] = 1
  /\ Pixel(entry.gfx, 60, 0) /\ ~Pixel(chip.gfx, 60, 0)
  /\ Pixel(chip.gfx, 62, 28)

----------------------------------------------------------------------------
(* Arithmetic: programs that load two registers and apply 8XY4, 8XY5,      *)
(* 8XY7, 8XY6 and 8XYE to them, loading them anew before each.              *)

\* 0 .. LowOperands-1, 0x7F, 0x80 and 0xFF are the operands
LowOperands == 2

Operands == {b \in 0 .. 255 : b < LowOperands} \cup {\H7F, \H80, \HFF}

ArithProgram(x, y, a, b) ==
  LET apply(k) == <<W_XNN(6, x, a), W_XNN(6, y, b), W_XY(8, x, y, k)>>
  IN  Bytes(apply(4) \o apply(5) \o apply(7) \o apply(6) \o apply(14))

ArithPrograms ==
  {ArithProgram(x, y, a, b) : <<x, y, a, b>> \in TestRegs \X TestRegs \X Operands \X Operands}

InitArith ==
  /\ \E p \in ArithPrograms : chip = load(CtxNew, p) /\ image = p
  /\ keypad = {}
  /\ result = Ok
  /\ last = "load"
  /\ entry = [pc |-> START_ADDR, rd |-> NoRead, fell |-> FALSE, gfx |-> GfxNew]
  /\ parity = 0
  /\ sched = NoSched
  /\ touched = NoTouched
  /\ CellsAside

\* the arithmetic programs under tick_chip calls alone
SpecArith == InitArith /\ [][TickChip]_vars

\* C27: 8XY4 leaves (Vx + Vy) mod 256 in Vx and VF = 1 iff Vx + Vy > 255;
\* 8XY5 leaves (Vx - Vy) mod 256 and VF = 1 iff Vx >= Vy; 8XY7 leaves
\* (Vy - Vx) mod 256 and VF = 1 iff Vy >= Vx, the operands being the values
\* before the instruction.  For every x and y VF is the flag afterwards, 0 or
\* 1: with x = F the flag replaces the arithmetic result.  No other register
\* changes.
C27_FlagArithmetic ==
  [][(last' = "tick_chip" /\ entry'.rd.ok
        /\ entry'.rd.op.t \in {"_8XY4", "_8XY5", "_8XY7"}) =>
       LET op == entry'.rd.op
           a == chip.v[op.x]
           b == chip.v[op.y]
           value == CASE op.t = "_8XY4" -> (a + b) % 256
                      [] op.t = "_8XY5" -> (a - b) % 256
                      [] op.t = "_8XY7" -> (b - a) % 256
           flag == CASE op.t = "_8XY4" -> a + b > 255
                     [] op.t = "_8XY5" -> a >= b
                     [] op.t = "_8XY7" -> b >= a
       IN  /\ result' = Ok
           /\ chip'.v[15] = (IF flag THEN 1 ELSE 0)
           /\ (op.x # 15 => chip'.v[op.x] = value)
           /\ \A r \in 0 .. 14 : r # op.x => chip'.v[r] = chip.v[r]
    ]_vars

\* 8F14 with VF = V1 = 0xFF: the sum is 0xFE, and VF is the carry
C27_Witness ==
  /\ EntryIs("_8XY4") /\ EntryOp.x = 15 /\ EntryOp.y = 1
  /\ chip.v[1] = 255 /\ chip.v[15] = 1 /\ result = Ok
  /\ chip.memory[START_ADDR + 1] = 255

IsShift == last' = "tick_chip" /\ entry'.rd.ok /\ entry'.rd.op.t \in {"_8XY6", "_8XYE"}

\* the value a shift instruction leaves and the bit it moves to VF
Shifted(t, b) == IF t = "_8XY6" THEN b \div 2 ELSE (b * 2) % 256
ShiftedOut(t, b) == IF t = "_8XY6" THEN b % 2 ELSE b \div 128

\* C28 (as claimed): after 8XY6, Vx = Vy = (old Vy) >> 1 and VF is the least
\* significant bit of old Vy; after 8XYE, Vx = Vy = ((old Vy) << 1) mod 256
\* and VF is the most significant bit of old Vy.
C28_ShiftsAsStated ==
  [][IsShift =>
       LET op == entry'.rd.op
           b == chip.v[op.y]
       IN  /\ chip'.v[op.x] = Shifted(op.t, b)
           /\ chip'.v[op.y] = Shifted(op.t, b)
           /\ chip'.v[15] = ShiftedOut(op.t, b)
    ]_vars

\* C28: 8XY6 and 8XYE shift the old Vy (right by one, left by one modulo
\* 256), leave the result in Vx and in Vy where these are not VF, and leave
\* in VF the bit shifted out (the least, the most significant bit of old Vy),
\* also when x or y is F; the old Vx does not enter the result, and no other
\* register changes.
C28_Shifts ==
  [][IsShift =>
       LET op == entry'.rd.op
           b == chip.v[op.y]
       IN  /\ result' = Ok
           /\ chip'.v[15] = ShiftedOut(op.t, b)
           /\ \A r \in 0 .. 14 :
                chip'.v[r] = IF r \in {op.x, op.y} THEN Shifted(op.t, b) ELSE chip.v[r]
    ]_vars

\* 801E with V0 = 1 and V1 = 0xFF: both registers hold 0xFE, VF the bit 1
C28_Witness ==
  /\ EntryIs("_8XYE") /\ EntryOp.x = 0 /\ EntryOp.y = 1 /\ result = Ok
  /\ chip.memory[START_ADDR + 1] = 1
  /\ chip.v[0] = 254 /\ chip.v[1] = 254 /\ chip.v[15] = 1

IsKeySkip == last' = "tick_chip" /\ entry'.rd.ok /\ entry'.rd.op.t \in {"_EX9E", "_EXA1"}

\* the key Vx names is held in the tick that has just run: Vx is a key index
\* and that key is Pressed or Down after the tick's key update
KeyHeld == chip.v[entry'.rd.op.x] < KEY_COUNT
             /\ chip'.keys[chip.v[entry'.rd.op.x]] \in {"Pressed", "Down"}

SkipTaken == IF entry'.rd.op.t = "_EX9E" THEN KeyHeld ELSE ~KeyHeld

----------------------------------------------------------------------------
(* Register store and load: programs that fill four registers, store       *)
(* V0..Vx at an address, load V0..Vx from the start of the program and then *)
(* from that address again.                                                *)

\* addresses 0 .. LowAddrs-1, 0x300 and those around the end of memory
LowAddrs == 1

StoreAddrs == {a \in 0 .. MEM_LENGTH - 1 : a < LowAddrs} \cup {768, 4079, 4080, 4093, 4094, 4095}

StoreProgram(i0, x) ==
  Bytes(<<\H60DE, \H61AD, \H6EBE, \H6FEF,
          W_NNN(10, i0), W_XNN(15, x, \H55),
          W_NNN(10, START_ADDR), W_XNN(15, x, \H65),
          W_NNN(10, i0), W_XNN(15, x, \H65), \H0000>>)

StorePrograms == {StoreProgram(i0, x) : <<i0, x>> \in StoreAddrs \X TestRegs}

InitStore ==
  /\ \E p \in StorePrograms : chip = load(CtxNew, p) /\ image = p
  /\ keypad = {}
  /\ result = Ok
  /\ last = "load"
  /\ entry = [pc |-> START_ADDR, rd |-> NoRead, fell |-> FALSE, gfx |-> GfxNew]
  /\ parity = 0
  /\ sched = NoSched
  /\ touched = NoTouched
  /\ CellsAside

SpecStore == InitStore /\ [][Next]_vars

\* C30: with I0 the value of I before the instruction, FX55 leaves Vk in
\* memory[I0 + k] and FX65 leaves memory[I0 + k] in Vk for every k in 0..x,
\* both leave I = I0 + x + 1 and change no other memory byte and no other
\* register; both fail exactly when I0 + x >= 4095, with the store and the
\* load error, and then change neither memory nor registers nor I.
C30_StoreLoad ==
  [][(last' = "tick_chip" /\ entry'.rd.ok /\ entry'.rd.op.t \in {"_FX55", "_FX65"}) =>
       LET op == entry'.rd.op
           i0 == chip.i
           fails == i0 + op.x >= MEM_LENGTH - 1
       IN  /\ (result' # Ok) = fails
           /\ (fails =>
                 /\ result' = (IF op.t = "_FX55" THEN ErrStore ELSE ErrLoad)
                 /\ chip'.memory = chip.memory /\ chip'.v = chip.v /\ chip'.i = i0)
           /\ (~fails => chip'.i = i0 + op.x + 1)
           /\ (~fails /\ op.t = "_FX55" =>
                 /\ chip'.v = chip.v
                 /\ \A a \in 0 .. MEM_LENGTH - 1 :
                      chip'.memory[a] =
                        IF a >= i0 /\ a <= i0 + op.x THEN chip.v[a - i0] ELSE chip.memory[a])
           /\ (~fails /\ op.t = "_FX65" =>
                 /\ chip'.memory = chip.memory
                 /\ \A r \in 0 .. 15 :
                      chip'.v[r] = IF r <= op.x THEN chip.memory[i0 + r] ELSE chip.v[r])
    ]_vars

\* FF55 at I = 4079: V0 is in memory[4079], VF in memory[4094], and I is 4095
C30_Witness ==
  /\ EntryIs("_FX55") /\ EntryOp.x = 15 /\ result = Ok
  /\ chip.i = 4095
  /\ chip.memory[4079] = \HDE /\ chip.memory[4080] = \HAD
  /\ chip.memory[4093] = \HBE /\ chip.memory[4094] = \HEF

\* the registers the store programs fill before FX55
StoredRegs == [r \in 0 .. 15 |-> CASE r = 0 -> \HDE [] r = 1 -> \HAD [] r = 14 -> \HBE
                                    [] r = 15 -> \HEF [] OTHER -> 0]

\* C31: in the store programs FX55 stores V0..Vx at I0, FX65 at the start of
\* the program changes V0..Vx, I is set back to I0 and FX65 is run again:
\* when it succeeds V0..Vx are the values FX55 stored and the other registers
\* are untouched by it.  Each FX55 and FX65 that succeeds advances I by
\* x + 1, the pair by 2(x + 1).
C31_StoreThenLoad ==
  [][(last' = "tick_chip" /\ entry'.rd.ok /\ result' = Ok
        /\ entry'.rd.op.t \in {"_FX55", "_FX65"}) =>
       LET x == entry'.rd.op.x
       IN  /\ chip'.i = chip.i + x + 1
           /\ (entry'.pc = START_ADDR + 10 => \A k \in 0 .. 15 : chip.v[k] = StoredRegs[k])
           /\ (entry'.pc = START_ADDR + 18 =>
                 /\ \A k \in 0 .. x : chip'.v[k] = StoredRegs[k]
                 /\ \A k \in 0 .. 15 : k > x => chip'.v[k] = chip.v[k])
    ]_vars

\* FF65 at I = 0x300 after FF55 there and FF65 from the program's own bytes
C31_Witness ==
  /\ EntryIs("_FX65") /\ EntryOp.x = 15 /\ entry.pc = START_ADDR + 18 /\ result = Ok
  /\ chip.i = 768 + 16
  /\ chip.v = StoredRegs
  /\ chip.memory[768] = \HDE /\ chip.memory[768 + 15] = \HEF

\* ---- the index register: FX33, FX29, FX1E ----

\* addresses the index programs set I to
IndexAddrs == {a \in 0 .. MEM_LENGTH - 1 : a < LowAddrs} \cup {15, 16, 768, 4093, 4094, 4095}

\* I = i0, the digits of Vx are written, I is pointed at a glyph, Vx grows
\* by one and the program starts again: Vx runs through every byte value
BcdProgram(i0, x) ==
  Bytes(<<W_NNN(10, i0), W_XNN(15, x, \H33), W_XNN(15, x, \H29),
          W_XNN(7, x, 1), \H1200>>)

\* Vx = vx and V0 = 1 where x is not 0, I = i0, then Vx is added to I
\* again and again
AddIProgram(i0, x, vx) ==
  Bytes(<<\H6001, W_XNN(6, x, vx), W_NNN(10, i0), W_XNN(15, x, \H1E), \H1206>>)

IndexPrograms ==
  {BcdProgram(i0, x) : <<i0, x>> \in IndexAddrs \X TestRegs}
    \cup {AddIProgram(i0, x, vx) : <<i0, x, vx>> \in IndexAddrs \X TestRegs \X TestBytes}
    \cup StorePrograms

InitIndex ==
  /\ \E p \in IndexPrograms : chip = load(CtxNew, p) /\ image = p
  /\ keypad = {}
  /\ result = Ok
  /\ last = "load"
  /\ entry = [pc |-> START_ADDR, rd |-> NoRead, fell |-> FALSE, gfx |-> GfxNew]
  /\ parity = 0
  /\ sched = NoSched
  /\ touched = NoTouched
  /\ CellsAside

SpecIndex == InitIndex /\ [][TickChip]_vars

\* C32: FX33 fails with ErrSetMemory exactly when I + 2 >= 4096, and then no
\* byte of memory changes; otherwise memory[I], memory[I+1], memory[I+2]
\* are digits 0..9 with 100 * memory[I] + 10 * memory[I+1] + memory[I+2]
\* = Vx, and every other byte of memory keeps its value.
C32_Bcd ==
  [][(last' = "tick_chip" /\ entry'.rd.ok /\ entry'.rd.op.t = "_FX33") =>
       LET x == entry'.rd.op.x
           i0 == chip.i
           fails == i0 + 2 >= MEM_LENGTH
       IN  /\ (result' # Ok) = fails
           /\ (fails => result' = ErrSetMemory /\ chip'.memory = chip.memory)
           /\ (~fails =>
                 /\ \A k \in 0 .. 2 : chip'.memory[i0 + k] \in 0 .. 9
                 /\ 100 * chip'.memory[i0] + 10 * chip'.memory[i0 + 1]
                      + chip'.memory[i0 + 2] = chip.v[x]
                 /\ \A a \in 0 .. MEM_LENGTH - 1 :
                      a \notin i0 .. i0 + 2 => chip'.memory[a] = chip.memory[a])
    ]_vars

\* FF33 with VF = 254 at I = 4093 writes 2, 5, 4 into the last three bytes
C32_Witness ==
  /\ EntryIs("_FX33") /\ EntryOp.x = 15 /\ result = Ok
  /\ chip.i = 4093 /\ chip.v[15] = 254
  /\ chip.memory[4093] = 2 /\ chip.memory[4094] = 5 /\ chip.memory[4095] = 4

\* C33: FX1E adds Vx to I: when I + Vx < 4096 it succeeds with I' = I + Vx,
\* otherwise it fails with ErrSetI and I keeps its value; no register, VF
\* included, changes either way.
C33_AddI ==
  [][(last' = "tick_chip" /\ entry'.rd.ok /\ entry'.rd.op.t = "_FX1E") =>
       LET sum == chip.i + chip.v[entry'.rd.op.x]
       IN  /\ chip'.v = chip.v
           /\ IF sum < MEM_LENGTH
              THEN result' = Ok /\ chip'.i = sum
              ELSE result' = ErrSetI /\ chip'.i = chip.i
    ]_vars

\* F11E with V1 = 0xFF and V0 = 1 has taken I to 4095
C33_Witness ==
  /\ EntryIs("_FX1E") /\ EntryOp.x = 1 /\ result = Ok
  /\ chip.v[1] = 255 /\ chip.v[0] = 1 /\ chip.v[15] = 0
  /\ chip.i = 4095

\* F11E with V1 = 0xFF at I = 4095 has failed and left I alone
C33_WitnessFails ==
  /\ EntryIs("_FX1E") /\ EntryOp.x = 1 /\ result = ErrSetI
  /\ chip.v[1] = 255 /\ chip.i = 4095

\* C34: I is an address: in every reachable state I < 4096, whether the
\* instructions that write I (ANNN, FX1E, FX29, FX55, FX65) succeeded or
\* failed.
C34_IndexInMemory == chip.i < MEM_LENGTH

\* I = 4095 after a failed FX1E with Vx > 0 or a failed FX65
C34_Witness ==
  /\ last = "tick_chip" /\ entry.rd.ok /\ chip.i = MEM_LENGTH - 1
  /\ \/ EntryOp.t = "_FX1E" /\ result = ErrSetI /\ chip.v[EntryOp.x] > 0
     \/ EntryOp.t = "_FX65" /\ result = ErrLoad

\* C35: the program counter is an address: PC <= 4095 in every reachable
\* state.
C35_PcInAddressSpace == chip.pc <= MEM_LENGTH - 1

\* ---- the program 61 2A 71 01 31 2B 12 08 12 02 ----

SettleProgram == Bytes(<<\H612A, \H7101, \H312B, \H1208, \H1202>>)

InitSettle ==
  /\ chip = load(CtxNew, SettleProgram)
  /\ image = SettleProgram
  /\ keypad = {}
  /\ result = Ok
  /\ last = "load"
  /\ entry = [pc |-> START_ADDR, rd |-> NoRead, fell |-> FALSE, gfx |-> GfxNew]
  /\ parity = 0
  /\ sched = NoSched
  /\ touched = NoTouched
  /\ CellsAside

\* tick_chip is called again and again
SpecSettle == InitSettle /\ [][TickChip]_vars /\ WF_parity(TickChipCalled)

\* C36 as stated: every tick succeeds and from some tick on PC stays 0x208
\* and V1 stays 0x2B.
C36_SettlesAsStated ==
  /\ [](last = "tick_chip" => result = Ok)
  /\ <>[](chip.pc = START_ADDR + 8 /\ chip.v[1] = \H2B)

\* C36: every tick succeeds; PC is 0x208 with V1 = 0x2B again and again,
\* each time straight from the skip at 0x204 and never from the jump at
\* 0x206; but PC does not stay there: the word at 0x208 is 1202, so PC
\* leaves 0x208 again and again and V1 moves on from 0x2B again and again.
C36_Settles ==
  /\ [](last = "tick_chip" => result = Ok)
  /\ [](chip.pc = START_ADDR + 8 =>
          (chip.v[1] = \H2B) = (entry.pc = START_ADDR + 4))
  /\ []<>(chip.pc = START_ADDR + 8 /\ chip.v[1] = \H2B)
  /\ []<>(chip.pc # START_ADDR + 8)
  /\ []<>(chip.v[1] # \H2B)

\* the third tick: the skip at 0x204 has been taken with V1 = 0x2B
C36_Witness ==
  /\ last = "tick_chip" /\ result = Ok
  /\ chip.pc = START_ADDR + 8 /\ chip.v[1] = \H2B
  /\ entry.pc = START_ADDR + 4 /\ EntryIs("_3XNN")

\* the round after: V1 = 0x2C at 0x208, reached through the jump at 0x206
C36_WitnessMovesOn ==
  /\ last = "tick_chip" /\ result = Ok
  /\ chip.pc = START_ADDR + 8 /\ chip.v[1] = \H2C
  /\ entry.pc = START_ADDR + 6

\* ---- construction ----

\* a program of n bytes none of which is 0
Filled(n) == [j \in 1 .. n |-> (j % 255) + 1]

\* the empty program, one byte, programs that end at and around the last
\* byte of memory, and the plain programs
LoadPrograms ==
  { <<>>, <<\HAB>>, SettleProgram,
    Filled(MEM_LENGTH - START_ADDR - 1), Filled(MEM_LENGTH - START_ADDR),
    Filled(MEM_LENGTH - START_ADDR + 1), Filled(MEM_LENGTH),
    Image(<<\H1FFE>>, 4094, <<\H6005, \H1234>>) } \cup PlainPrograms

InitLoad ==
  /\ \E p \in LoadPrograms : chip = load(CtxNew, p) /\ image = p
  /\ keypad = {}
  /\ result = Ok
  /\ last = "load"
  /\ entry = [pc |-> START_ADDR, rd |-> NoRead, fell |-> FALSE, gfx |-> GfxNew]
  /\ parity = 0
  /\ sched = NoSched
  /\ touched = NoTouched
  /\ CellsAside

SpecLoad == InitLoad /\ [][Next]_vars

\* C37: what load returns: PC = 0x200, I = 0, registers and both timers 0,
\* the stack empty, every key Up, the framebuffer clear; memory holds the
\* font at 0x050 .. 0x09F, the program bytes that fit at 0x200 + j
\* (j < min(len, 3584)) and 0 everywhere else, so program bytes beyond the
\* end of memory are dropped.
C37_Load ==
  last = "load" =>
    /\ chip.pc = START_ADDR /\ chip.i = 0
    /\ \A r \in 0 .. 15 : chip.v[r] = 0
    /\ TimerLoad(chip.delay_timer) = 0 /\ TimerLoad(chip.sound_timer) = 0
    /\ chip.stack = <<>>
    /\ \A k \in 0 .. KEY_COUNT - 1 : chip.keys[k] = "Up"
    /\ \A x \in 0 .. WIDTH - 1, y \in 0 .. HEIGHT - 1 : ~GfxGetBit(chip.gfx, x, y).bit
    /\ DOMAIN chip.memory = 0 .. MEM_LENGTH - 1
    /\ \A a \in 0 .. MEM_LENGTH - 1 :
         chip.memory[a] =
           IF a \in FONTSET_ADDR .. FONTSET_ADDR + 79 THEN fontset[a - FONTSET_ADDR + 1]
           ELSE IF a >= START_ADDR /\ a - START_ADDR < Len(image) THEN image[a - START_ADDR + 1]
           ELSE 0

\* a program of 4096 bytes has been loaded: its first 3584 bytes are in
\* memory and nothing was written below 0x200 but the font
C37_Witness ==
  /\ last = "load" /\ result = Ok
  /\ Len(image) = MEM_LENGTH
  /\ chip.memory[MEM_LENGTH - 1] = image[MEM_LENGTH - START_ADDR]
  /\ chip.memory[MEM_LENGTH - 1] # 0
  /\ chip.memory[0] = 0 /\ chip.memory[START_ADDR - 1] = 0

\* ---- Gfx by itself: xor_bit and get_bit ----

\* xor_bit calls made on one Gfx
MaxXors ==
  3

\* coordinates inside the frame, on its edges and beyond them
PixelXs == {0, 7, 8, WIDTH - 1, WIDTH, WIDTH + 1}
PixelYs == {0, HEIGHT - 1, HEIGHT, HEIGHT + 1}

InitGfx ==
  /\ MachineAside
  /\ cells = CellsNew
  /\ race = RaceNew
  /\ decode = DecodeNew
  /\ bits = BitsNew

\* gfx.xor_bit(x, y, val) and then gfx.get_bit(x, y)
XorBit ==
  /\ bits.k < MaxXors
  /\ \E x \in PixelXs, y \in PixelYs, val \in BOOLEAN :
       LET out == GfxXorBit(bits.g, x, y, val)
       IN  bits' = [g |-> out.g, before |-> bits.g, k |-> bits.k + 1,
                    x |-> x, y |-> y, val |-> val, r |-> out.r,
                    got |-> GfxGetBit(out.g, x, y)]
  /\ MachineUnchanged
  /\ UNCHANGED <<cells, race, decode>>

SpecGfx == InitGfx /\ [][XorBit]_vars

\* the bit at (x, y) of a Gfx, inside the frame
BitAt(g, x, y) == GfxGetBit(g, x, y).bit

\* C38: after xor_bit(x, y, val) with x < 64 and y < 32 the call has
\* returned Ok, get_bit(x, y) answers the old bit XOR val and no other bit
\* has changed, so val = false changes nothing; two calls in a row with
\* val = true on the same pixel leave the Gfx as it was before the first.
\* With x >= 64 or y >= 32 xor_bit returns the error, get_bit answers
\* None and the Gfx is unchanged.
C38_XorBit ==
  /\ [](bits.k > 0 =>
         IF bits.x < WIDTH /\ bits.y < HEIGHT
         THEN /\ bits.r = Ok
              /\ bits.got.some
              /\ bits.got.bit = (BitAt(bits.before, bits.x, bits.y) # bits.val)
              /\ \A x \in 0 .. WIDTH - 1, y \in 0 .. HEIGHT - 1 :
                   <<x, y>> # <<bits.x, bits.y>> =>
                     BitAt(bits.g, x, y) = BitAt(bits.before, x, y)
              /\ (~bits.val => bits.g = bits.before)
         ELSE /\ bits.r = ErrPixel
              /\ ~bits.got.some
              /\ bits.g = bits.before)
  /\ [][(bits.k > 0 /\ bits'.k = bits.k + 1
           /\ bits'.x = bits.x /\ bits'.y = bits.y /\ bits.val /\ bits'.val
           /\ bits.x < WIDTH /\ bits.y < HEIGHT)
          => bits'.g = bits.before]_vars

\* xor_bit(63, 31, true) on a Gfx whose pixel (0, 0) is lit has lit the last
\* bit of the last byte
C38_Witness ==
  /\ bits.k = 2 /\ bits.x = WIDTH - 1 /\ bits.y = HEIGHT - 1 /\ bits.val /\ bits.r = Ok
  /\ bits.got = [some |-> TRUE, bit |-> TRUE]
  /\ bits.before[0] = 128 /\ bits.g[0] = 128
  /\ bits.g[(WIDTH * HEIGHT) \div 8 - 1] = 1

\* xor_bit(64, 0, true) has failed and changed nothing
C38_WitnessOutside ==
  /\ bits.k > 0 /\ bits.x = WIDTH /\ bits.y = 0 /\ bits.val /\ bits.r = ErrPixel
  /\ ~bits.got.some /\ bits.g = bits.before

\* ---- calls and returns ----

\* calls made from the last word of memory and to the last addresses, a
\* return to the last word, and the plain programs
CallPrograms ==
  { Image(<<\H1FFE, \H0000, \H00EE>>, 4094, <<\H2204>>),
    Image(<<\H1FFE>>, 4094, <<\H2200>>),
    Image(<<\H2FFE>>, 4094, <<\H00EE>>),
    Bytes(<<\H2FFF>>),
    Bytes(<<\H60FF, \H2206, \H1204, \HBF00>>),
    Bytes(<<\H2204, \H1200, \H2208, \H00EE, \H00EE>>) } \cup PlainPrograms

InitCalls ==
  /\ \E p \in CallPrograms : chip = load(CtxNew, p) /\ image = p
  /\ keypad = {}
  /\ result = Ok
  /\ last = "load"
  /\ entry = [pc |-> START_ADDR, rd |-> NoRead, fell |-> FALSE, gfx |-> GfxNew]
  /\ parity = 0
  /\ sched = NoSched
  /\ touched = NoTouched
  /\ CellsAside

SpecCalls == InitCalls /\ [][Next]_vars

C39_WitnessFull ==
  /\ Len(chip.stack) = STACK_CAPACITY /\ result = ErrStackFull
  /\ chip.stack[STACK_CAPACITY] = MEM_LENGTH - 2

\* ---- errors that leave PC where it is ----

\* V0 = 2 and both timers set to it, then the words ws
ErrorProgram(ws) == Bytes(<<\H6002, \HF015, \HF018>> \o ws)

\* one program per way of failing with PC left in place: a jump, a call and
\* BNNN below 0x200, BNNN beyond memory, a call on a full stack, 0NNN,
\* words the decoder refuses, and fetches at 4095 and 4096
ErrorPrograms ==
  { ErrorProgram(ws) :
      ws \in { <<\H1100>>, <<\H2100>>, <<\H6000, \HB1FF>>, <<\HBFFF>>, <<\H2206>>,
               <<\H0000>>, <<\H0123>>, <<\H5001>>, <<\HF0FF>>, <<\H1FFF>> } }
    \cup { Image(<<\H6002, \HF015, \HF018, \H1FFE>>, 4094, <<\H00E0>>) }

InitErrors ==
  /\ \E p \in ErrorPrograms : chip = load(CtxNew, p) /\ image = p
  /\ keypad = PressableKeys
  /\ result = Ok
  /\ last = "load"
  /\ entry = [pc |-> START_ADDR, rd |-> NoRead, fell |-> FALSE, gfx |-> GfxNew]
  /\ parity = 0
  /\ sched = NoSched
  /\ touched = NoTouched
  /\ CellsAside

SpecErrors == InitErrors /\ [][Next]_vars

\* the last tick_chip failed at the fetch, in the decoder, or in a handler
\* that returns before the program counter is touched
FailedInPlace ==
  \/ ~entry.rd.ok /\ result \in {ErrReadMemory, ErrUnknownOp}
  \/ /\ entry.rd.ok
     /\ \/ entry.rd.op.t = "_0NNN" /\ result = ErrMlSubroutine
        \/ entry.rd.op.t \in {"_1NNN", "_2NNN", "_BNNN"} /\ result = ErrJump
        \/ entry.rd.op.t = "_BNNN" /\ result = ErrSetPc
        \/ entry.rd.op.t = "_2NNN" /\ result = ErrStackFull

\* C40: once a tick_chip has failed in place (fetch out of memory, a word
\* the decoder refuses, 0NNN, a jump or call below 0x200, BNNN beyond
\* memory, a call on a full stack), every later step, tick_chip with any
\* keys or tick_timers, leaves PC, the registers, I, the stack, memory and
\* the framebuffer as they are, and every later tick_chip fails in place
\* with the same error.
C40_ErrorsStay ==
  [][FailedInPlace =>
       /\ FailedInPlace'
       /\ result' = result
       /\ entry'.pc = entry.pc
       /\ chip'.pc = chip.pc /\ chip'.v = chip.v /\ chip'.i = chip.i
       /\ chip'.stack = chip.stack /\ chip'.memory = chip.memory
       /\ chip'.gfx = chip.gfx
    ]_vars

\* a word the decoder refuses has failed again, after the timers were
\* ticked down to 0 and with key 0 held down
C40_Witness ==
  /\ last = "tick_chip" /\ result = ErrUnknownOp /\ FailedInPlace
  /\ chip.pc = START_ADDR + 6 /\ entry.pc = chip.pc
  /\ TimerLoad(chip.delay_timer) = 0 /\ chip.v[0] = 2
  /\ chip.keys[0] = "Down"

====
